---- MODULE Spec2Model ----
(***************************************************************************)
(* The workout builder's editing engine: the zustand store of              *)
(* src/unnamed/part_002 (store.ts) wrapped in zundo's temporal middleware,  *)
(* the tree and metrics helpers of src/src/workout-builder/constants.ts    *)
(* (utils.ts part) and the drag handlers of components/index.ts; and the   *)
(* <workout-builder> web component of src/unnamed/part_004 with its own    *)
(* tree and history manager; the tick worker of src/unnamed/part_001 and   *)
(* the <coaching-text> element of src/src/views/coaching-text.js.          *)
(*                                                                         *)
(* Units: durations are whole seconds, powers are whole percent of FTP     *)
(* (0.75 is 75), intensityFactor is kept in hundredths (1.00 is 100).      *)
(* An optional field of a block (powerEnd, cadence) that is undefined is   *)
(* absent from the record, which is what JSON.stringify makes of it.       *)
(***************************************************************************)
EXTENDS Integers, Sequences, FiniteSets, TLC

\* store: the zustand state; temporal: zundo's pastStates and futureStates;
\* lastOp: the last operation performed, its name first, then the arguments
\* the properties refer to; builder: the <workout-builder> component of
\* src/unnamed/part_004, which has a tree and a history manager of its own;
\* worker: the tick worker's globals and the browser's interval timers;
\* coaching: the <coaching-text> element, the browser's timeouts and clock
VARIABLES store, temporal, lastOp, builder, worker, coaching

vars == <<store, temporal, lastOp, builder, worker, coaching>>

(***************************************************************************)
(* Bounds of the model.                                                    *)
(***************************************************************************)
\* ids that generateId can hand out
MaxId == 5
\* top-level items a tree may hold
MaxItems == 2
\* entries of pastStates the model lets the history grow to
MaxPast == 4
\* the capacity of the small history manager (createHistoryManager's maxSize)
MaxSize == 3
\* entries the model lets a history manager of the default capacity grow to
MaxEntries == 6

Ids == 1..MaxId

(***************************************************************************)
(* Arithmetic helpers.                                                     *)
(***************************************************************************)
Min(a, b) == IF a <= b THEN a ELSE b

Max(a, b) == IF a >= b THEN a ELSE b

\* utils clamp
clamp(value, lo, hi) == Min(Max(value, lo), hi)

\* Math.round(n / d) for d > 0: halves round up
Round(n, d) == (2 * n + d) \div (2 * d)

\* Math.ceil(n / d) for d > 0
Ceil(n, d) == -((-n) \div d)

RECURSIVE Gcd(_, _)
Gcd(a, b) == IF b = 0 THEN a ELSE Gcd(b, a % b)

\* Math.floor(Math.sqrt(x)) for lo * lo <= x < (hi + 1) * (hi + 1), by bisection
RECURSIVE FloorSqrt(_, _, _)
FloorSqrt(x, lo, hi) ==
    IF lo >= hi THEN lo
    ELSE LET mid == (lo + hi + 1) \div 2
         IN  IF mid * mid <= x THEN FloorSqrt(x, mid, hi) ELSE FloorSqrt(x, lo, mid - 1)

\* Math.round(Math.sqrt(num / den)) for num >= 0, den > 0:
\* floor((floor(2 * sqrt(num/den)) + 1) / 2)
RoundSqrt(num, den) == (FloorSqrt((4 * num) \div den, 0, 46340) + 1) \div 2

RECURSIVE SeqSum(_)
SeqSum(s) == IF s = <<>> THEN 0 ELSE Head(s) + SeqSum(Tail(s))

RECURSIVE SeqGcd(_)
SeqGcd(s) == IF s = <<>> THEN 0 ELSE Gcd(Head(s), SeqGcd(Tail(s)))

RECURSIVE Flat(_)
Flat(ss) == IF ss = <<>> THEN <<>> ELSE Head(ss) \o Flat(Tail(ss))

Range(s) == {s[i] : i \in DOMAIN s}

Front(s) == SubSeq(s, 1, Len(s) - 1)

Last(s) == s[Len(s)]

\* s.filter(keep)
Filter(s, keep(_)) == SelectSeq(s, keep)

\* s.splice(i, 0, x) with a 0-based index i (an index beyond the end appends)
InsertAt(s, i, x) ==
    LET k == Min(i, Len(s)) IN SubSeq(s, 1, k) \o <<x>> \o SubSeq(s, k + 1, Len(s))

\* s.splice(i, 1) with a 0-based index i
RemoveAt(s, i) == SubSeq(s, 1, i) \o SubSeq(s, i + 2, Len(s))

(***************************************************************************)
(* Blocks, repeat groups, and the tree helpers of utils.ts.                *)
(***************************************************************************)
BlockType == {"steady", "warmup", "cooldown", "ramp", "freeride"}

DEFAULT_BLOCK_VALUES(type) ==
    CASE type = "steady"   -> [duration |-> 300, power |-> 75]
      [] type = "warmup"   -> [duration |-> 300, power |-> 45, powerEnd |-> 75]
      [] type = "cooldown" -> [duration |-> 300, power |-> 65, powerEnd |-> 40]
      [] type = "ramp"     -> [duration |-> 60, power |-> 75, powerEnd |-> 105]
      [] type = "freeride" -> [duration |-> 300, power |-> 50]

\* createBlock(type) with the id generateId returned
createBlock(id, type) == [id |-> id, type |-> type] @@ DEFAULT_BLOCK_VALUES(type)

isRepeatGroup(item) == item.type = "repeat"

isWorkoutBlock(item) == item.type /= "repeat"

\* { ...block, id }
WithId(block, id) == [block EXCEPT !.id = id]

\* Object.assign(item, updates): updates.vals holds the keys with a value,
\* updates.undef the keys whose value is undefined
Assign(item, updates) ==
    LET keys == (DOMAIN item \cup DOMAIN updates.vals) \ updates.undef
    IN  [k \in keys |-> IF k \in DOMAIN updates.vals THEN updates.vals[k] ELSE item[k]]

ChildDurations(group) == [j \in DOMAIN group.blocks |-> group.blocks[j].duration]

\* a group's duration that counts its children once, whatever the repeat
getBlockDurationOnce(item) ==
    IF isRepeatGroup(item) THEN SeqSum(ChildDurations(item)) ELSE item.duration

getBlockDuration(item) ==
    IF isRepeatGroup(item)
    THEN SeqSum(ChildDurations(item)) * item.repeat
    ELSE item.duration

getTotalDuration(blocks) ==
    SeqSum([i \in DOMAIN blocks |-> getBlockDuration(blocks[i])])

\* the blocks of the tree in order, children after their group is entered
LeafBlocks(blocks) ==
    Flat([i \in DOMAIN blocks |->
            IF isRepeatGroup(blocks[i]) THEN blocks[i].blocks ELSE <<blocks[i]>>])

\* findBlockById: the matching leaf blocks, first match first (<<>> is null)
findBlockById(blocks, id) ==
    Filter(LeafBlocks(blocks), LAMBDA b : b.id = id)

\* store.getAllBlockIds
getAllBlockIds(blocks) ==
    Flat([i \in DOMAIN blocks |->
            IF isRepeatGroup(blocks[i])
            THEN <<blocks[i].id>> \o [j \in DOMAIN blocks[i].blocks |-> blocks[i].blocks[j].id]
            ELSE <<blocks[i].id>>])

(***************************************************************************)
(* Metrics (utils.ts, calculateWorkoutMetrics).                            *)
(***************************************************************************)
\* an average power that takes a ramp at its start power
getAveragePower2OfStart(block) ==
    IF block.type = "freeride" THEN 100 ELSE 2 * block.power

\* twice getAveragePower(block), in percent
getAveragePower2(block) ==
    IF block.type \in {"warmup", "cooldown", "ramp"}
    THEN block.power + (IF "powerEnd" \in DOMAIN block THEN block.powerEnd ELSE block.power)
    ELSE IF block.type = "freeride" THEN 100
    ELSE 2 * block.power

\* processBlock's arguments: every leaf block with its multiplied duration
MetricParts(blocks) ==
    Flat([i \in DOMAIN blocks |->
            IF isRepeatGroup(blocks[i])
            THEN [j \in DOMAIN blocks[i].blocks |->
                    [d |-> blocks[i].blocks[j].duration * blocks[i].repeat,
                     a |-> getAveragePower2(blocks[i].blocks[j])]]
            ELSE <<[d |-> blocks[i].duration, a |-> getAveragePower2(blocks[i])]>>])

\* Math.round(a * b * b * c / d) for d > 0, cancelling common factors first
RoundProduct(a, b, c, d) ==
    LET g1 == Gcd(a, d)
        d1 == d \div g1
        g2 == Gcd(b, d1)
        d2 == d1 \div g2
        g3 == Gcd(b, d2)
        d3 == d2 \div g3
        g4 == Gcd(c, d3)
    IN  Round((a \div g1) * (b \div g2) * (b \div g3) * (c \div g4), d3 \div g4)

calculateWorkoutMetrics(blocks, ftp) ==
    LET parts == MetricParts(blocks)
        n == Len(parts)
        totalDuration == SeqSum([i \in 1..n |-> parts[i].d])
        \* with G and H the common factors of the durations and of the doubled
        \* average powers: weightedPowerSum = (H/200)^2 * G * S,
        \* tssSum = weightedPowerSum / 36, kjSum = ftp * K / (200 * 1000)
        G == SeqGcd([i \in 1..n |-> parts[i].d])
        H == SeqGcd([i \in 1..n |-> parts[i].a])
        S == SeqSum([i \in 1..n |-> (parts[i].a \div H) * (parts[i].a \div H) * (parts[i].d \div G)])
        K == SeqSum([i \in 1..n |-> parts[i].a * parts[i].d])
        T == totalDuration \div G
        g == Gcd(ftp * H, 200)
        F == (ftp * H) \div g
        D == 200 \div g
        g2 == Gcd(H, 2)
        H2 == H \div g2
        D2 == 2 \div g2
    IN  [duration |-> totalDuration,
         tss |-> IF totalDuration > 0 THEN RoundProduct(G, H, S, 1440000) ELSE 0,
         intensityFactor |->
            IF totalDuration > 0 THEN RoundSqrt(H2 * H2 * S, D2 * D2 * T) ELSE 0,
         normalizedPower |->
            IF totalDuration > 0 THEN RoundSqrt(F * F * S, D * D * T) ELSE 0,
         kilojoules |-> RoundProduct(ftp, 1, K, 200000)]

(***************************************************************************)
(* Zone distribution (utils.ts, calculateZoneDistribution).                *)
(***************************************************************************)
\* the zones' min and max, in percent of FTP
POWER_ZONES ==
    [i \in 0..5 |->
        [min |-> <<0, 55, 75, 90, 105, 120>>[i + 1],
         max |-> <<55, 75, 90, 105, 120, 200>>[i + 1]]]

\* a zone search that takes the first zone whose max is not below the power
getZoneByMax(num, den) ==
    LET at == {i \in DOMAIN POWER_ZONES : num <= POWER_ZONES[i].max * den}
    IN  IF at = {} THEN 5 ELSE CHOOSE i \in at : \A k \in at : i <= k

\* getZoneForPower(power) of utils.ts for the power num / den percent: the
\* index (0-5) of the last zone whose min the power reaches
getZoneForPower(num, den) ==
    LET at == {i \in DOMAIN POWER_ZONES : num >= POWER_ZONES[i].min * den}
    IN  IF at = {} THEN 0 ELSE CHOOSE i \in at : \A k \in at : i >= k

\* flattenWorkoutBlocks: a group gives its children repeat times over
flattenWorkoutBlocks(blocks) ==
    Flat([i \in DOMAIN blocks |->
            IF isRepeatGroup(blocks[i])
            THEN [k \in 1..(Len(blocks[i].blocks) * Max(blocks[i].repeat, 0)) |->
                    blocks[i].blocks[((k - 1) % Len(blocks[i].blocks)) + 1]]
            ELSE <<blocks[i]>>])

\* the seconds one block of the flattened workout adds to a zone
ZoneSeconds(block, zone) ==
    LET hasRamp == "powerEnd" \in DOMAIN block /\ block.powerEnd /= block.power
        powerDelta == block.powerEnd - block.power
    IN  IF block.type = "freeride" THEN 0
        ELSE IF hasRamp
        THEN Cardinality({t \in 0..(block.duration - 1) :
                getZoneForPower(block.power * block.duration + powerDelta * t,
                                block.duration) = zone})
        ELSE IF getZoneForPower(block.power, 1) = zone THEN block.duration ELSE 0

calculateZoneDistribution(blocks) ==
    LET flatBlocks == flattenWorkoutBlocks(blocks)
    IN  [zone \in DOMAIN POWER_ZONES |->
            SeqSum([k \in DOMAIN flatBlocks |-> ZoneSeconds(flatBlocks[k], zone)])]

(***************************************************************************)
(* Snapping (utils.ts) and the default configuration (constants.ts).       *)
(***************************************************************************)
DEFAULT_SNAP_CONFIG ==
    [enabled |-> TRUE,
     duration |-> [increment |-> 15,
                   thresholds |-> <<30, 60, 90, 120, 180, 300, 600, 900, 1200, 1800, 3600>>],
     power |-> [increment |-> 5, zones |-> <<55, 75, 90, 105, 120, 150>>]]

DEFAULT_DISPLAY_CONFIG == [maxPower |-> 200, minDuration |-> 15, minPower |-> 20]

Abs(x) == IF x < 0 THEN -x ELSE x

\* rounding down to the increment instead of to the nearest multiple
snapToIncrementDown(value, increment) == (value \div increment) * increment

snapToIncrement(value, increment) == Round(value, increment) * increment

\* the first entry of marks within tol of value, else the increment's multiple
SnapTo(value, marks, tol, increment) ==
    LET near == {i \in DOMAIN marks : Abs(value - marks[i]) <= tol}
    IN  IF near /= {}
        THEN marks[CHOOSE i \in near : \A j \in near : i <= j]
        ELSE snapToIncrement(value, increment)

snapDuration(value, config) == SnapTo(value, config.thresholds, 5, config.increment)

snapPower(value, config) == SnapTo(value, config.zones, 2, config.increment)

applySnap(value, type, config) ==
    IF ~config.enabled THEN value
    ELSE IF type = "duration" THEN snapDuration(value, config.duration)
    ELSE snapPower(value, config.power)

\* ---------------------------------------------------------------------------
\* Power as the program holds it: a JavaScript number (IEEE-754 double)
\* ---------------------------------------------------------------------------
\* Every double that is 0 or lies in [2^-6, 4) is a whole multiple of 2^-58.
\* Such a number is held as that multiple, an integer written in limbs of
\* 20 bits, least significant limb first, without leading zero limbs.
Limb == 2^20

Big(n) ==
    IF n = 0 THEN <<>> ELSE IF n < Limb THEN <<n>> ELSE <<n % Limb, n \div Limb>>

RECURSIVE BigTrim(_)
BigTrim(a) ==
    IF a = <<>> THEN a ELSE IF Last(a) = 0 THEN BigTrim(Front(a)) ELSE a

\* a * k + carry, for k <= 2^11 and carry < 2^11
RECURSIVE BigTimes(_, _, _)
BigTimes(a, k, carry) ==
    IF a = <<>> THEN Big(carry)
    ELSE LET p == a[1] * k + carry
         IN  BigTrim(<<p % Limb>> \o BigTimes(Tail(a), k, p \div Limb))

\* quotient and remainder of a by d, for 1 <= d <= 2^11
RECURSIVE BigDivMod(_, _)
BigDivMod(a, d) ==
    IF a = <<>> THEN [q |-> <<>>, r |-> 0]
    ELSE LET hi == BigDivMod(Tail(a), d)
             n == hi.r * Limb + a[1]
         IN  [q |-> BigTrim(<<n \div d>> \o hi.q), r |-> n % d]

RECURSIVE BigLess(_, _)
BigLess(a, b) ==
    IF Len(a) /= Len(b) THEN Len(a) < Len(b)
    ELSE IF a = <<>> THEN FALSE
    ELSE IF Last(a) /= Last(b) THEN Last(a) < Last(b)
    ELSE BigLess(Front(a), Front(b))

\* a - b - borrow, for a >= b + borrow
RECURSIVE BigMinus(_, _, _)
BigMinus(a, b, borrow) ==
    IF a = <<>> THEN <<>>
    ELSE LET d == a[1] - (IF b = <<>> THEN 0 ELSE b[1]) - borrow
         IN  <<(d + Limb) % Limb>>
                \o BigMinus(Tail(a), IF b = <<>> THEN b ELSE Tail(b),
                            IF d < 0 THEN 1 ELSE 0)

\* Math.abs(a - b): the difference of two multiples of 2^-58 below 4 either is
\* a double or exceeds 2^-5, so its rounding does not change a comparison
\* with 0.02
BigAbsDiff(a, b) ==
    IF BigLess(a, b) THEN BigTrim(BigMinus(b, a, 0)) ELSE BigTrim(BigMinus(a, b, 0))

BitLength(a) ==
    IF a = <<>> THEN 0
    ELSE 20 * (Len(a) - 1) + CHOOSE b \in 1..20 : 2^(b - 1) <= Last(a) /\ Last(a) < 2^b

\* the double nearest to n / d, ties to the even significand of 53 bits
NearestDouble(n, d) ==
    LET whole == BigDivMod(n, d)
        drop == Max(BitLength(whole.q) - 53, 0)
        kept == BigDivMod(whole.q, 2^drop)
        rest == kept.r * d + whole.r
        odd == kept.q /= <<>> /\ kept.q[1] % 2 = 1
        up == 2 * rest > 2^drop * d \/ (2 * rest = 2^drop * d /\ odd)
    IN  BigTimes(IF up THEN BigTimes(kept.q, 1, 1) ELSE kept.q, 2^drop, 0)

\* 2^58, one unit of the power scale
One == <<0, 0, 2^18>>

\* the double of the decimal literal h / 100, as 0.05 or 1.20 in the source
Hundredths(h) == NearestDouble(BigTimes(One, h, 0), 100)

\* Math.round(value / increment): the doubles of whole hundredths and the
\* products of the increment have a quotient by the increment that is far
\* from a tie, where rounding the double quotient is rounding the quotient
MathRoundOfQuotient(value, increment) ==
    CHOOSE k \in 0..1023 :
        /\ k = 0 \/ ~BigLess(BigTimes(value, 2, 0), BigTimes(increment, 2 * k - 1, 0))
        /\ BigLess(BigTimes(value, 2, 0), BigTimes(increment, 2 * k + 1, 0))

\* snapToIncrement in doubles: Math.round(value / increment) * increment
snapToIncrementNumber(value, increment) ==
    NearestDouble(BigTimes(increment, MathRoundOfQuotient(value, increment), 0), 1)

\* snapPower in doubles, config in whole percent as DEFAULT_SNAP_CONFIG.power
snapPowerNumber(value, config) ==
    LET near == {i \in DOMAIN config.zones :
                    ~BigLess(Hundredths(2), BigAbsDiff(value, Hundredths(config.zones[i])))}
    IN  IF near /= {}
        THEN Hundredths(config.zones[CHOOSE i \in near : \A j \in near : i <= j])
        ELSE snapToIncrementNumber(value, Hundredths(config.increment))

(***************************************************************************)
(* The store and zundo's temporal middleware.  A world w holds the store   *)
(* state w.s and the temporal state w.t; every set of the store goes       *)
(* through the middleware's handleSet.                                     *)
(***************************************************************************)
HISTORY_MAX_SIZE == 100

defaultMeta ==
    [name |-> "New Workout", duration |-> 0, tss |-> 0,
     intensityFactor |-> 0, normalizedPower |-> 0]

defaultWorkout == [meta |-> defaultMeta, blocks |-> <<>>]

defaultMetrics ==
    [duration |-> 0, tss |-> 0, intensityFactor |-> 0, normalizedPower |-> 0,
     kilojoules |-> 0]

\* the store's initial state (dragState <<>> is null)
InitialState ==
    [workout |-> defaultWorkout,
     ftp |-> 200,
     targetDuration |-> 3600,
     durationMode |-> "auto",
     selectedIds |-> <<>>,
     dragState |-> <<>>,
     snapConfig |-> DEFAULT_SNAP_CONFIG,
     metrics |-> defaultMetrics]

InitialTemporal == [pastStates |-> <<>>, futureStates |-> <<>>]

\* a partialize that also tracks the target duration
partializeWithTarget(state) ==
    [workout |-> state.workout, targetDuration |-> state.targetDuration]

\* temporal option partialize
partialize(state) == [workout |-> state.workout]

\* temporal option equality: JSON.stringify(pastState) === JSON.stringify(currentState)
equality(pastState, currentState) == pastState = currentState

\* zundo _handleSet behind the equality check, with the limit option
handleSet(t, pastState, currentState) ==
    IF equality(pastState, currentState)
    THEN t
    ELSE [pastStates |->
            Append(IF Len(t.pastStates) >= HISTORY_MAX_SIZE
                   THEN Tail(t.pastStates) ELSE t.pastStates,
                   pastState),
          futureStates |-> <<>>]

\* one set(...) of the store, seen by the temporal middleware
SetState(w, s2) ==
    [s |-> s2, t |-> handleSet(w.t, partialize(w.s), partialize(s2))]

\* zustand's merge of a partial state into the store state
Merge(state, partial) ==
    [k \in DOMAIN state |-> IF k \in DOMAIN partial THEN partial[k] ELSE state[k]]

\* zundo undo(): the untracked set of the last past state
undo(w) ==
    IF Len(w.t.pastStates) = 0 THEN w
    ELSE [s |-> Merge(w.s, Last(w.t.pastStates)),
          t |-> [pastStates |-> Front(w.t.pastStates),
                 futureStates |-> Append(w.t.futureStates, partialize(w.s))]]

\* zundo redo()
redo(w) ==
    IF Len(w.t.futureStates) = 0 THEN w
    ELSE [s |-> Merge(w.s, Last(w.t.futureStates)),
          t |-> [pastStates |-> Append(w.t.pastStates, partialize(w.s)),
                 futureStates |-> Front(w.t.futureStates)]]

\* an auto-fit that rounds the content down to 5 minutes
AutoFitFloor(usedDuration) == Max(300, (usedDuration \div 300) * 300)

\* the target auto-fit computes: content rounded up to 5 minutes, at least 300 s
AutoFitTarget(usedDuration) == Max(300, Ceil(usedDuration, 300) * 300)

recalculateMetrics(w) ==
    LET state == w.s
        metrics == calculateWorkoutMetrics(state.workout.blocks, state.ftp)
        usedDuration == getTotalDuration(state.workout.blocks)
        newTargetDuration == AutoFitTarget(usedDuration)
        shouldAutoFit == /\ state.durationMode = "auto"
                         /\ state.dragState = <<>>
                         /\ newTargetDuration /= state.targetDuration
    IN  SetState(w, [state EXCEPT
            !.metrics = metrics,
            !.workout.meta.duration = metrics.duration,
            !.workout.meta.tss = metrics.tss,
            !.workout.meta.intensityFactor = metrics.intensityFactor,
            !.workout.meta.normalizedPower = metrics.normalizedPower,
            !.targetDuration = IF shouldAutoFit THEN newTargetDuration ELSE @])

(***************************************************************************)
(* generateId: ids are unique for good (a timestamp and a random suffix).  *)
(* The model hands out the smallest ids that occur nowhere in the world.   *)
(***************************************************************************)
ItemIds(blocks) == Range(getAllBlockIds(blocks))

UsedIds(w) ==
    ItemIds(w.s.workout.blocks)
    \cup UNION {ItemIds(snap.workout.blocks) :
                    snap \in Range(w.t.pastStates) \cup Range(w.t.futureStates)}
    \cup Range(w.s.selectedIds)
    \cup {d.blockId : d \in Range(w.s.dragState)}

\* the n ids the next n calls of generateId return, in call order (fewer when
\* the model's ids run out)
generateId(w, n) ==
    LET free == Ids \ UsedIds(w)
        nth(k) == CHOOSE x \in free : Cardinality({y \in free : y < x}) = k - 1
    IN  [k \in 1..Min(n, Cardinality(free)) |-> nth(k)]

(***************************************************************************)
(* Block operations of the store.                                          *)
(***************************************************************************)
\* addBlock with the refusal weakened to remainingDuration < 0: a workout that
\* fills the target exactly still takes a block
addBlockWhenFull(w, type, insertIndex) ==
    LET state == w.s
        remainingDuration == state.targetDuration - getTotalDuration(state.workout.blocks)
        created == createBlock(generateId(w, 1)[1], type)
        newBlock ==
            IF /\ state.durationMode = "fixed"
               /\ created.duration > remainingDuration
               /\ remainingDuration > 0
            THEN [created EXCEPT !.duration = Max(60, remainingDuration)]
            ELSE created
        blocks == state.workout.blocks
    IN  IF state.durationMode = "fixed" /\ remainingDuration < 0
        THEN w
        ELSE recalculateMetrics(SetState(w, [state EXCEPT
                !.workout.blocks =
                    IF insertIndex >= 0 THEN InsertAt(blocks, insertIndex, newBlock)
                    ELSE Append(blocks, newBlock),
                !.selectedIds = <<newBlock.id>>]))

\* addBlock(type, insertIndex); a negative insertIndex stands for undefined
addBlock(w, type, insertIndex) ==
    LET state == w.s
        currentDuration == getTotalDuration(state.workout.blocks)
        remainingDuration == state.targetDuration - currentDuration
        created == createBlock(generateId(w, 1)[1], type)
        newBlock ==
            IF /\ state.durationMode = "fixed"
               /\ created.duration > remainingDuration
               /\ remainingDuration > 0
            THEN [created EXCEPT !.duration = Max(60, remainingDuration)]
            ELSE created
        blocks == state.workout.blocks
    IN  IF state.durationMode = "fixed" /\ remainingDuration <= 0
        THEN w
        ELSE recalculateMetrics(SetState(w, [state EXCEPT
                !.workout.blocks =
                    IF insertIndex >= 0 THEN InsertAt(blocks, insertIndex, newBlock)
                    ELSE Append(blocks, newBlock),
                !.selectedIds = <<newBlock.id>>]))

\* addIntervalSet(blockDefs, repeatCount)
addIntervalSet(w, blockDefs, repeatCount) ==
    LET ids == generateId(w, Len(blockDefs) + 1)
        intervalBlocks ==
            [j \in DOMAIN blockDefs |->
                [id |-> ids[j], type |-> "steady",
                 duration |-> blockDefs[j].duration, power |-> blockDefs[j].power]]
        repeatGroup ==
            [id |-> ids[Len(blockDefs) + 1], type |-> "repeat",
             repeat |-> repeatCount, blocks |-> intervalBlocks]
    IN  recalculateMetrics(SetState(w, [w.s EXCEPT
            !.workout.blocks = Append(@, repeatGroup),
            !.selectedIds = <<repeatGroup.id>>]))

\* updateBlock's duration-mode policy: the updates it goes on to write
CapUpdates(state, id, updates) ==
    LET found == findBlockById(state.workout.blocks, id)
    IN  IF "duration" \in DOMAIN updates.vals /\ found /= <<>>
        THEN LET currentBlock == found[1]
                 currentDuration == getTotalDuration(state.workout.blocks)
                 durationDelta == updates.vals.duration - currentBlock.duration
                 newTotalDuration == currentDuration + durationDelta
                 maxDuration ==
                    currentBlock.duration + (state.targetDuration - currentDuration)
             IN  IF state.durationMode = "fixed" /\ newTotalDuration > state.targetDuration
                 THEN [updates EXCEPT !.vals.duration = Max(60, maxDuration)]
                 ELSE updates
        ELSE updates

\* updateInBlocks: Object.assign on the first block with the id, top-level or
\* a child of a group
updateInBlocks(blocks, id, updates) ==
    LET hit(item) ==
            \/ item.id = id /\ isWorkoutBlock(item)
            \/ isRepeatGroup(item) /\ \E j \in DOMAIN item.blocks : item.blocks[j].id = id
        hits == {i \in DOMAIN blocks : hit(blocks[i])}
        first == CHOOSE i \in hits : \A k \in hits : i <= k
        item == blocks[first]
        js == {j \in DOMAIN item.blocks : item.blocks[j].id = id}
        j1 == CHOOSE j \in js : \A k \in js : j <= k
    IN  IF hits = {} THEN blocks
        ELSE IF isWorkoutBlock(item)
        THEN [blocks EXCEPT ![first] = Assign(item, updates)]
        ELSE [blocks EXCEPT ![first].blocks[j1] = Assign(item.blocks[j1], updates)]

updateBlock(w, id, updates) ==
    LET capped == CapUpdates(w.s, id, updates)
    IN  recalculateMetrics(SetState(w, [w.s EXCEPT
            !.workout.blocks = updateInBlocks(@, id, capped)]))

\* deleteFromBlocks
\* a deleteFromBlocks that leaves a group whose last child went in the tree
deleteFromBlocksKeepingEmpty(blocks, id) ==
    LET pruned == [i \in DOMAIN blocks |->
                    IF isRepeatGroup(blocks[i])
                    THEN [blocks[i] EXCEPT !.blocks = Filter(@, LAMBDA b : b.id /= id)]
                    ELSE blocks[i]]
    IN  Filter(pruned, LAMBDA item : item.id /= id)

deleteFromBlocks(blocks, id) ==
    LET pruned == [i \in DOMAIN blocks |->
                    IF isRepeatGroup(blocks[i])
                    THEN [blocks[i] EXCEPT !.blocks = Filter(@, LAMBDA b : b.id /= id)]
                    ELSE blocks[i]]
        keep(item) ==
            /\ item.id /= id
            /\ (isRepeatGroup(item) => Len(item.blocks) /= 0)
        \* the filter leaves an item with the id behind unpruned, and drops it
    IN  Filter(pruned, keep)

\* a deleteBlock that falls back to the last item when the id is unknown
deleteBlockOrLast(w, id) ==
    recalculateMetrics(SetState(w, [w.s EXCEPT
        !.workout.blocks = IF \E i \in DOMAIN @ : @[i].id = id \/ @ = <<>>
                           THEN deleteFromBlocks(@, id)
                           ELSE SubSeq(@, 1, Len(@) - 1),
        !.selectedIds = Filter(@, LAMBDA sid : sid /= id)]))

deleteBlock(w, id) ==
    recalculateMetrics(SetState(w, [w.s EXCEPT
        !.workout.blocks = deleteFromBlocks(@, id),
        !.selectedIds = Filter(@, LAMBDA sid : sid /= id)]))

RECURSIVE DeleteEach(_, _)
DeleteEach(w, ids) ==
    IF ids = <<>> THEN w ELSE DeleteEach(deleteBlock(w, Head(ids)), Tail(ids))

deleteSelected(w) ==
    LET w2 == DeleteEach(w, w.s.selectedIds)
    IN  SetState(w2, [w2.s EXCEPT !.selectedIds = <<>>])

\* a clone that keeps the type only and takes the defaults for the rest
cloneBlockAsDefault(block, id) == createBlock(id, block.type)

cloneBlock(block, id) == WithId(block, id)

\* cloneRepeatGroup: ids[1] for the group, the rest for its children
cloneRepeatGroup(group, ids) ==
    [group EXCEPT !.id = ids[1],
                  !.blocks = [j \in DOMAIN group.blocks |->
                                cloneBlock(group.blocks[j], ids[j + 1])]]

\* how many ids duplicateBlock(id) draws
DuplicateNeeds(blocks, id) ==
    LET tops == {i \in DOMAIN blocks : blocks[i].id = id}
    IN  IF tops /= {} /\ isRepeatGroup(blocks[CHOOSE i \in tops : TRUE])
        THEN 1 + Len(blocks[CHOOSE i \in tops : TRUE].blocks)
        ELSE 1

duplicateBlock(w, id) ==
    LET state == w.s
        blocks == state.workout.blocks
        ids == generateId(w, DuplicateNeeds(blocks, id))
        hit(item) ==
            \/ item.id = id
            \/ isRepeatGroup(item) /\ \E j \in DOMAIN item.blocks : item.blocks[j].id = id
        hits == {i \in DOMAIN blocks : hit(blocks[i])}
        i1 == CHOOSE i \in hits : \A k \in hits : i <= k
        item == blocks[i1]
        js == {j \in DOMAIN item.blocks : item.blocks[j].id = id}
        j1 == CHOOSE j \in js : \A k \in js : j <= k
        s2 == IF hits = {} THEN state
              ELSE IF item.id = id
              THEN LET clone == IF isRepeatGroup(item) THEN cloneRepeatGroup(item, ids)
                                ELSE cloneBlock(item, ids[1])
                   IN  [state EXCEPT !.workout.blocks = InsertAt(blocks, i1, clone),
                                     !.selectedIds = <<clone.id>>]
              ELSE LET clone == cloneBlock(item.blocks[j1], ids[1])
                   IN  [state EXCEPT
                          !.workout.blocks[i1].blocks = InsertAt(item.blocks, j1, clone),
                          !.selectedIds = <<clone.id>>]
    IN  recalculateMetrics(SetState(w, s2))

\* moveItem(array, fromIndex, toIndex), 0-based
moveItem(array, fromIndex, toIndex) ==
    InsertAt(RemoveAt(array, fromIndex), toIndex, array[fromIndex + 1])

moveBlock(w, id, newIndex) ==
    LET blocks == w.s.workout.blocks
        at == {i \in DOMAIN blocks : blocks[i].id = id}
        currentIndex == IF at = {} THEN -1 ELSE (CHOOSE i \in at : \A k \in at : i <= k) - 1
    IN  IF currentIndex /= -1 /\ currentIndex /= newIndex
        THEN SetState(w, [w.s EXCEPT
                !.workout.blocks = moveItem(blocks, currentIndex, newIndex)])
        ELSE SetState(w, w.s)

(***************************************************************************)
(* Repeat group operations of the store.                                   *)
(***************************************************************************)
\* utils createRepeatGroup(blocks, repeat): ids[1] for the group, the rest
\* for the re-identified children
newRepeatGroup(blocks, repeat, ids) ==
    [id |-> ids[1], type |-> "repeat", repeat |-> repeat,
     blocks |-> [j \in DOMAIN blocks |-> WithId(blocks[j], ids[j + 1])]]

\* store createRepeatGroup(blockIds, repeatCount)
createRepeatGroup(w, blockIds, repeatCount) ==
    LET state == w.s
        blocks == state.workout.blocks
        picked(item) == item.id \in blockIds /\ isWorkoutBlock(item)
        selectedBlocks == Filter(blocks, picked)
        remainingBlocks == Filter(blocks, LAMBDA item : ~picked(item))
        firstPicked == CHOOSE i \in DOMAIN blocks :
                          picked(blocks[i]) /\ \A k \in 1..(i - 1) : ~picked(blocks[k])
        \* remainingBlocks.length when the first selected block is met
        insertIndex == Len(Filter(SubSeq(blocks, 1, firstPicked), LAMBDA item : ~picked(item)))
        group == newRepeatGroup(selectedBlocks, repeatCount,
                                generateId(w, Len(selectedBlocks) + 1))
    IN  recalculateMetrics(SetState(w,
            IF Len(selectedBlocks) > 0
            THEN [state EXCEPT
                    !.workout.blocks = InsertAt(remainingBlocks, insertIndex, group),
                    !.selectedIds = <<group.id>>]
            ELSE state))

ungroupRepeat(w, groupId) ==
    LET state == w.s
        blocks == state.workout.blocks
        at == {i \in DOMAIN blocks : blocks[i].id = groupId}
        groupIndex == IF at = {} THEN 0 ELSE CHOOSE i \in at : \A k \in at : i <= k
        group == blocks[groupIndex]
        ids == generateId(w, Len(group.blocks))
        ungroupedBlocks == [j \in DOMAIN group.blocks |-> cloneBlock(group.blocks[j], ids[j])]
    IN  recalculateMetrics(SetState(w,
            IF groupIndex /= 0 /\ isRepeatGroup(blocks[groupIndex])
            THEN [state EXCEPT
                    !.workout.blocks = SubSeq(blocks, 1, groupIndex - 1)
                                       \o ungroupedBlocks
                                       \o SubSeq(blocks, groupIndex + 1, Len(blocks)),
                    !.selectedIds = [j \in DOMAIN ungroupedBlocks |-> ungroupedBlocks[j].id]]
            ELSE state))

updateRepeatCount(w, groupId, count) ==
    LET state == w.s
        blocks == state.workout.blocks
        at == {i \in DOMAIN blocks : blocks[i].id = groupId /\ isRepeatGroup(blocks[i])}
        gi == CHOOSE i \in at : \A k \in at : i <= k
        group == blocks[gi]
        singleIterationDuration == SeqSum(ChildDurations(group))
        currentGroupDuration == singleIterationDuration * group.repeat
        otherBlocksDuration == getTotalDuration(blocks) - currentGroupDuration
        newGroupDuration == singleIterationDuration * count
        totalAfterChange == otherBlocksDuration + newGroupDuration
        w1 == IF totalAfterChange > state.targetDuration
              THEN SetState(w, [state EXCEPT !.targetDuration = totalAfterChange])
              ELSE w
        w2 == SetState(w1, [w1.s EXCEPT
                !.workout.blocks[gi].repeat = Max(1, Min(99, count))])
    IN  recalculateMetrics(IF at = {} THEN w ELSE w2)

(***************************************************************************)
(* Selection, drag state and configuration.                                *)
(***************************************************************************)
selectBlock(w, id, additive) ==
    LET sel == w.s.selectedIds
    IN  SetState(w, [w.s EXCEPT !.selectedIds =
            IF additive
            THEN IF id \in Range(sel) THEN Filter(sel, LAMBDA x : x /= id)
                 ELSE Append(sel, id)
            ELSE <<id>>])

clearSelection(w) == SetState(w, [w.s EXCEPT !.selectedIds = <<>>])

\* setDragState(dragState): <<>> is null, <<session>> a drag session
setDragState(w, dragState) ==
    LET wasDragging == w.s.dragState /= <<>>
        w1 == SetState(w, [w.s EXCEPT !.dragState = dragState])
    IN  IF wasDragging /\ dragState = <<>> THEN recalculateMetrics(w1) ELSE w1

\* a setFTP that stores its argument as given
setFTPUnclamped(w, ftp) ==
    recalculateMetrics(SetState(w, [w.s EXCEPT !.ftp = ftp]))

setFTP(w, ftp) ==
    recalculateMetrics(SetState(w, [w.s EXCEPT !.ftp = Max(50, Min(500, ftp))]))

setTargetDuration(w, duration) ==
    SetState(w, [w.s EXCEPT !.targetDuration = Max(300, Min(28800, duration)),
                            !.durationMode = "fixed"])

\* a setDurationMode that sets the mode and derives nothing
setDurationModeOnly(w, mode) == SetState(w, [w.s EXCEPT !.durationMode = mode])

setDurationMode(w, mode) ==
    LET w1 == SetState(w, [w.s EXCEPT !.durationMode = mode])
    IN  IF mode = "auto" THEN recalculateMetrics(w1) ELSE w1

toggleDurationMode(w) ==
    setDurationMode(w, IF w.s.durationMode = "fixed" THEN "auto" ELSE "fixed")

toggleSnap(w) == SetState(w, [w.s EXCEPT !.snapConfig.enabled = ~@])

(***************************************************************************)
(* Workout operations.                                                     *)
(***************************************************************************)
\* setWorkout(workout): deepClone keeps every value of a JSON tree
setWorkout(w, workout) ==
    recalculateMetrics(SetState(w, [w.s EXCEPT !.workout = workout,
                                               !.selectedIds = <<>>]))

\* setWorkoutMeta(meta): Object.assign(state.workout.meta, meta)
setWorkoutMeta(w, meta) ==
    SetState(w, [w.s EXCEPT !.workout.meta = Merge(@, meta)])

clearWorkout(w) ==
    SetState(w, [w.s EXCEPT !.workout = defaultWorkout,
                            !.selectedIds = <<>>,
                            !.metrics = defaultMetrics])

(***************************************************************************)
(* The drag handlers of DraggableBlock (components/index.ts).  A pointer    *)
(* position is given by its offset from the pointer-down position, already *)
(* converted to seconds (deltaX / pixelsPerSecond) or percent              *)
(* (-deltaY / pixelsPerPower).                                             *)
(***************************************************************************)
\* handlePointerDown(e, handle) on the block, without ctrl/meta
handlePointerDown(w, block, handle) ==
    LET endPower == IF "powerEnd" \in DOMAIN block THEN block.powerEnd ELSE block.power
        session ==
            IF handle = "right"
            THEN [blockId |-> block.id, handle |-> handle, startValue |-> block.duration]
            ELSE [blockId |-> block.id, handle |-> handle, startValue |-> block.power,
                  startValue2 |-> endPower]
        w1 == selectBlock(w, block.id, FALSE)
    IN  IF handle = "move" THEN w1 ELSE setDragState(w1, <<session>>)

\* the updates handlePointerMove passes to updateBlock for a pointer offset
DragUpdates(dragState, snapConfig, delta) ==
    LET dc == DEFAULT_DISPLAY_CONFIG
        currentEndPower ==
            IF "startValue2" \in DOMAIN dragState THEN dragState.startValue2
            ELSE dragState.startValue
        newDuration ==
            applySnap(clamp(dragState.startValue + delta, dc.minDuration, 7200),
                      "duration", snapConfig)
        newPower ==
            applySnap(clamp(dragState.startValue + delta, dc.minPower, dc.maxPower),
                      "power", snapConfig)
        newEndPower ==
            applySnap(clamp(currentEndPower + delta, dc.minPower, dc.maxPower),
                      "power", snapConfig)
    IN  CASE dragState.handle = "right" ->
                [vals |-> [duration |-> Round(newDuration, 1)], undef |-> {}]
          [] dragState.handle = "top" ->
                [vals |-> [power |-> newPower, powerEnd |-> newEndPower], undef |-> {}]
          [] dragState.handle = "top-left" ->
                [vals |-> [power |-> newPower, powerEnd |-> currentEndPower], undef |-> {}]
          [] dragState.handle = "top-right" ->
                [vals |-> [powerEnd |-> newEndPower], undef |-> {}]

\* handlePointerMove of the dragged block's component
handlePointerMove(w, delta) ==
    LET dragState == w.s.dragState[1]
    IN  updateBlock(w, dragState.blockId, DragUpdates(dragState, w.s.snapConfig, delta))

\* handlePointerUp of the dragged block's component
handlePointerUp(w) == setDragState(w, <<>>)

\* PropertyPanel handleTypeChange on the selected block
handleTypeChange(w, selectedBlock, type) ==
    LET isRamp == type \in {"warmup", "cooldown", "ramp"}
        updates ==
            IF isRamp
            THEN IF "powerEnd" \notin DOMAIN selectedBlock
                 THEN [vals |-> [type |-> type,
                                 powerEnd |-> IF type = "warmup"
                                              THEN selectedBlock.power + 25
                                              ELSE selectedBlock.power - 25],
                       undef |-> {}]
                 ELSE [vals |-> [type |-> type], undef |-> {}]
            ELSE [vals |-> [type |-> type], undef |-> {"powerEnd"}]
    IN  updateBlock(w, selectedBlock.id, updates)

\* useSelectedBlock: the block the property panel edits (<<>> is null)
useSelectedBlock(state) ==
    IF Len(state.selectedIds) /= 1 THEN <<>>
    ELSE LET found == findBlockById(state.workout.blocks, state.selectedIds[1])
         IN  IF found = <<>> THEN <<>> ELSE <<found[1]>>

(***************************************************************************)
(* The <workout-builder> web component of src/unnamed/part_004 and its     *)
(* history manager.  The component keeps its own tree (this.blocks) and    *)
(* its own undo history, apart from the store.  A history manager is the   *)
(* record of its closure: maxSize, history and currentIndex (0-based, -1   *)
(* when nothing was pushed).  A block of the component carries its         *)
(* undefined fields as the value undefined, which JSON.stringify drops.    *)
(***************************************************************************)
\* the value of a field that createBlock sets to undefined
undefined == -1

CONFIG ==
    [SNAP |-> [DURATION |-> 15, POWER |-> 5],
     DISPLAY |-> [MAX_POWER |-> 200, MIN_DURATION |-> 15, MIN_POWER |-> 20]]

snapValue(value, increment) == Round(value, increment) * increment

\* createBlock(type) of part_004, with the uuid it draws
builderBlock(id, type) ==
    [id |-> id,
     type |-> type,
     duration |-> 300,
     power |-> IF type \in {"warmup", "cooldown"} THEN 50 ELSE 75,
     powerEnd |-> IF type = "warmup" THEN 75
                  ELSE IF type = "cooldown" THEN 35 ELSE undefined,
     cadence |-> undefined,
     slope |-> undefined]

\* JSON.parse(JSON.stringify(blocks)): a key whose value is undefined is
\* left out of the copy
JsonItem(item) ==
    LET keys == {k \in DOMAIN item :
                    ~(k \in {"powerEnd", "cadence", "slope"} /\ item[k] = undefined)}
    IN  [k \in keys |-> item[k]]

JsonClone(blocks) ==
    [i \in DOMAIN blocks |->
        IF blocks[i].type = "repeat"
        THEN [JsonItem(blocks[i]) EXCEPT
                 !.blocks = [j \in DOMAIN blocks[i].blocks |-> JsonItem(blocks[i].blocks[j])]]
        ELSE JsonItem(blocks[i])]

\* a push that keeps the undone entries behind the new one
history_pushKeepingRedo(h, state) ==
    LET pushed  == SubSeq(h.history, 1, h.currentIndex + 1) \o <<JsonClone(state)>>
                   \o SubSeq(h.history, h.currentIndex + 2, Len(h.history))
        shifted == IF Len(pushed) > h.maxSize THEN Tail(pushed) ELSE pushed
    IN  [h EXCEPT !.history = shifted,
                  !.currentIndex = Min(h.currentIndex + 1, Len(shifted) - 1)]

\* a push that never evicts
history_pushUnbounded(h, state) ==
    LET pushed == Append(SubSeq(h.history, 1, h.currentIndex + 1), JsonClone(state))
    IN  [h EXCEPT !.history = pushed, !.currentIndex = Len(pushed) - 1]

createHistoryManager(maxSize) ==
    [maxSize |-> maxSize, history |-> <<>>, currentIndex |-> -1]

history_push(h, state) ==
    LET spliced == SubSeq(h.history, 1, h.currentIndex + 1)
        pushed  == Append(spliced, JsonClone(state))
        shifted == IF Len(pushed) > h.maxSize THEN Tail(pushed) ELSE pushed
    IN  [h EXCEPT !.history = shifted, !.currentIndex = Len(shifted) - 1]

\* an undo() that also answers at the oldest entry
history_undoAtOldest(h) ==
    IF h.currentIndex >= 0
    THEN [h |-> [h EXCEPT !.currentIndex = Max(h.currentIndex - 1, 0)],
          found |-> TRUE,
          state |-> JsonClone(h.history[Max(h.currentIndex, 1)])]
    ELSE [h |-> h, found |-> FALSE, state |-> <<>>]

\* undo() and redo() return the manager they leave and the snapshot; found
\* FALSE is the null of the source
history_undo(h) ==
    IF h.currentIndex > 0
    THEN [h |-> [h EXCEPT !.currentIndex = h.currentIndex - 1],
          found |-> TRUE,
          state |-> JsonClone(h.history[h.currentIndex])]
    ELSE [h |-> h, found |-> FALSE, state |-> <<>>]

history_redo(h) ==
    IF h.currentIndex < Len(h.history) - 1
    THEN [h |-> [h EXCEPT !.currentIndex = h.currentIndex + 1],
          found |-> TRUE,
          state |-> JsonClone(h.history[h.currentIndex + 2])]
    ELSE [h |-> h, found |-> FALSE, state |-> <<>>]

history_canUndo(h) == h.currentIndex > 0

history_canRedo(h) == h.currentIndex < Len(h.history) - 1

\* the component after its constructor (selectedId and dragState <<>> are
\* null); connected is set by connectedCallback, which creates the renderer
\* and registers the listeners
WorkoutBuilder(maxSize) ==
    [connected |-> FALSE,
     blocks |-> <<>>,
     selectedId |-> <<>>,
     dragState |-> <<>>,
     history |-> createHistoryManager(maxSize)]

builderItemIds(blocks) ==
    UNION {IF blocks[i].type = "repeat"
           THEN {blocks[i].id} \cup {blocks[i].blocks[j].id : j \in DOMAIN blocks[i].blocks}
           ELSE {blocks[i].id} : i \in DOMAIN blocks}

\* uuid(): an id that no block of the component or of its history carries
uuid(b) ==
    LET used == builderItemIds(b.blocks)
                \cup UNION {builderItemIds(b.history.history[i]) : i \in DOMAIN b.history.history}
    IN  CHOOSE id \in Ids \ used : \A other \in Ids \ used : id <= other

builderHasId(b) ==
    LET used == builderItemIds(b.blocks)
                \cup UNION {builderItemIds(b.history.history[i]) : i \in DOMAIN b.history.history}
    IN  Ids \ used /= {}

saveHistory(b) == [b EXCEPT !.history = history_push(b.history, b.blocks)]

WorkoutBuilder_addBlock(b, type) ==
    saveHistory([b EXCEPT !.blocks = Append(b.blocks, builderBlock(uuid(b), type))])

connectedCallback(b) ==
    LET b1 == WorkoutBuilder_addBlock([b EXCEPT !.connected = TRUE], "warmup")
        b2 == WorkoutBuilder_addBlock(b1, "steady")
        b3 == WorkoutBuilder_addBlock(b2, "steady")
        b4 == WorkoutBuilder_addBlock(b3, "cooldown")
    IN  saveHistory(b4)

\* findBlock(id): <<>> is null
findBlock(blocks, id) ==
    LET flat == Flat([i \in DOMAIN blocks |->
                        IF blocks[i].type = "repeat"
                        THEN <<blocks[i]>> \o blocks[i].blocks
                        ELSE <<blocks[i]>>])
        hits == {i \in DOMAIN flat : flat[i].id = id}
    IN  IF hits = {} THEN <<>>
        ELSE <<flat[CHOOSE i \in hits : \A j \in hits : i <= j]>>

\* { ...block, ...updates }
Spread(item, updates) ==
    [k \in DOMAIN item \cup DOMAIN updates |->
        IF k \in DOMAIN updates THEN updates[k] ELSE item[k]]

WorkoutBuilder_updateBlock(b, id, updates) ==
    LET firstTop == {i \in DOMAIN b.blocks :
                       \/ b.blocks[i].id = id
                       \/ /\ b.blocks[i].type = "repeat"
                          /\ \E j \in DOMAIN b.blocks[i].blocks : b.blocks[i].blocks[j].id = id}
    IN  IF firstTop = {} THEN b
        ELSE LET i == CHOOSE x \in firstTop : \A y \in firstTop : x <= y
                 item == b.blocks[i]
             IN  IF item.id = id
                 THEN [b EXCEPT !.blocks[i] = Spread(item, updates)]
                 ELSE LET js == {j \in DOMAIN item.blocks : item.blocks[j].id = id}
                          j  == CHOOSE x \in js : \A y \in js : x <= y
                      IN  [b EXCEPT !.blocks[i].blocks[j] = Spread(item.blocks[j], updates)]

WorkoutBuilder_selectBlock(b, id) == [b EXCEPT !.selectedId = id]

WorkoutBuilder_deleteSelected(b) ==
    IF b.selectedId = <<>> THEN b
    ELSE LET sel == b.selectedId[1]
             inner(item) ==
                 IF item.type = "repeat"
                 THEN [item EXCEPT !.blocks = Filter(item.blocks, LAMBDA c : c.id /= sel)]
                 ELSE item
             kept == Filter(b.blocks, LAMBDA x : x.id /= sel)
         IN  saveHistory([b EXCEPT !.blocks = [i \in DOMAIN kept |-> inner(kept[i])],
                                   !.selectedId = <<>>])

\* onPointerDown on the element of block blockId (<<>>: no block element
\* under the pointer) and on the handle named
onPointerDown(b, blockId, handle) ==
    IF blockId = <<>> THEN WorkoutBuilder_selectBlock(b, <<>>)
    ELSE LET block == findBlock(b.blocks, blockId[1])
         IN  IF block = <<>> THEN b
             ELSE LET selected == WorkoutBuilder_selectBlock(b, blockId)
                  IN  IF handle \in {"right", "top"}
                      THEN [selected EXCEPT !.dragState =
                               <<[blockId |-> blockId[1],
                                  handle |-> handle,
                                  startValue |-> IF handle = "right" THEN block[1].duration
                                                 ELSE block[1].power]>>]
                      ELSE selected

\* onPointerMove with the pointer's travel already scaled to seconds (right
\* handle) or to percent of FTP (top handle)
onPointerMove(b, delta) ==
    IF b.dragState = <<>> THEN b
    ELSE LET drag == b.dragState[1]
         IN  IF findBlock(b.blocks, drag.blockId) = <<>> THEN b
             ELSE IF drag.handle = "right"
             THEN WorkoutBuilder_updateBlock(b, drag.blockId,
                      [duration |-> snapValue(clamp(drag.startValue + delta,
                                                    CONFIG.DISPLAY.MIN_DURATION, 3600),
                                              CONFIG.SNAP.DURATION)])
             ELSE IF drag.handle = "top"
             THEN WorkoutBuilder_updateBlock(b, drag.blockId,
                      [power |-> snapValue(clamp(drag.startValue + delta,
                                                 CONFIG.DISPLAY.MIN_POWER,
                                                 CONFIG.DISPLAY.MAX_POWER),
                                           CONFIG.SNAP.POWER)])
             ELSE b

onPointerUp(b) ==
    IF b.dragState /= <<>>
    THEN [saveHistory(b) EXCEPT !.dragState = <<>>]
    ELSE b

WorkoutBuilder_undo(b) ==
    LET r == history_undo(b.history)
    IN  IF r.found
        THEN [b EXCEPT !.history = r.h, !.blocks = r.state, !.selectedId = <<>>]
        ELSE [b EXCEPT !.history = r.h]

WorkoutBuilder_redo(b) ==
    LET r == history_redo(b.history)
    IN  IF r.found
        THEN [b EXCEPT !.history = r.h, !.blocks = r.state, !.selectedId = <<>>]
        ELSE [b EXCEPT !.history = r.h]

(***************************************************************************)
(* The tick worker (src/unnamed/part_001).  interval holds what            *)
(* setInterval returned last, 0 while it is undefined; timers are the ids  *)
(* of the interval timers the browser keeps running; nextTimer is the id   *)
(* the next setInterval returns; lastCommand remembers the last 'start',   *)
(* 'stop' or 'pause' message received.                                     *)
(***************************************************************************)
TickWorker ==
    [interval |-> 0, intervalDuration |-> 1000, timers |-> {}, nextTimer |-> 1,
     lastCommand |-> "none"]

\* clearInterval(interval): the variable keeps the id
onStop(k) == [k EXCEPT !.timers = @ \ {k.interval}]

onStart(k) ==
    LET stopped == onStop(k)
    IN  [stopped EXCEPT !.interval = stopped.nextTimer,
                        !.timers = @ \cup {stopped.nextTimer},
                        !.nextTimer = @ + 1]

\* onConfig(data); data.interval 0 stands for a missing or zero interval
onConfig(k, data) ==
    IF data.interval /= 0
    THEN LET configured == [k EXCEPT !.intervalDuration = data.interval]
         IN  IF configured.interval /= 0 THEN onStart(onStop(configured))
             ELSE configured
    ELSE k

\* the message listener; e.type is "config" for a config object and "" for a
\* string message, whose text is e.data
onMessage(k, e) ==
    IF e.type = "config" THEN onConfig(k, e)
    ELSE CASE e.data = "start" -> onStart(k)
           [] e.data = "stop"  -> onStop(k)
           [] e.data = "pause" -> onStop(k)
           [] OTHER -> k

(***************************************************************************)
(* The <coaching-text> element (src/src/views/coaching-text.js).  Time is  *)
(* counted in units of 500 ms: now is the browser's clock, timeouts the    *)
(* pending setTimeout callbacks, each with its id, its due time and the    *)
(* callback to run; fadeTimer 0 is null.  received counts the texts the    *)
(* element was handed, and a timeout remembers the count of the text it    *)
(* was started for.                                                        *)
(***************************************************************************)
\* the auto-hide delay of 10000 ms and the fade-out delay of 500 ms
HideDelay == 10000 \div 500

FadeDelay == 500 \div 500

\* the element after its constructor ran
CoachingText ==
    [text |-> "", fadeTimer |-> 0, fadeOut |-> FALSE, message |-> "",
     connected |-> FALSE, timeouts |-> {}, nextTimer |-> 1, now |-> 0,
     received |-> 0]

\* render(): the message shown, "" when the element is hidden (display none);
\* escapeHtml leaves the texts of the model, which hold no markup, as they are
render(c) == [c EXCEPT !.message = c.text]

\* setTimeout(callback, delay) by the element
setTimeout(c, callback, delay, startedFor) ==
    [c EXCEPT !.timeouts = @ \cup {[id |-> c.nextTimer, due |-> c.now + delay,
                                     callback |-> callback, received |-> startedFor]},
              !.nextTimer = @ + 1]

\* clearTimeout(id): no effect for a timeout that has run
clearTimeout(c, id) == [c EXCEPT !.timeouts = {t \in @ : t.id /= id}]

CoachingText_connectedCallback(c) == render([c EXCEPT !.connected = TRUE])

CoachingText_disconnectedCallback(c) ==
    LET aborted == [c EXCEPT !.connected = FALSE]
    IN  IF aborted.fadeTimer /= 0 THEN clearTimeout(aborted, aborted.fadeTimer)
        ELSE aborted

\* onCoachingText(text); "" stands for every falsy text
onCoachingText(c, text) ==
    LET shown == render([c EXCEPT !.text = text, !.received = @ + 1])
        cleared == IF shown.fadeTimer /= 0 THEN clearTimeout(shown, shown.fadeTimer)
                   ELSE shown
    IN  IF cleared.text /= ""
        THEN [setTimeout(cleared, "fadeOut", HideDelay, cleared.received)
                EXCEPT !.fadeTimer = cleared.nextTimer]
        ELSE cleared

\* the callbacks of the two timeouts
runTimeout(c, t) ==
    LET gone == [c EXCEPT !.timeouts = @ \ {t}]
    IN  IF t.callback = "fadeOut"
        THEN setTimeout([gone EXCEPT !.fadeOut = TRUE], "clear", FadeDelay, t.received)
        ELSE render([gone EXCEPT !.text = "", !.fadeOut = FALSE])

(***************************************************************************)
(* The state machine: one action per store operation or UI handler.        *)
(* lastOp names the operation the last step ran.                           *)
(***************************************************************************)
W == [s |-> store, t |-> temporal]

Blocks == store.workout.blocks

HasIds(n) == Cardinality(Ids \ UsedIds(W)) >= n

\* the step to world w2, within the model's bounds
Commit(op, w2) ==
    \E r \in {w2} :
        /\ Len(r.t.pastStates) <= MaxPast
        /\ Len(r.s.workout.blocks) <= MaxItems
        /\ store' = r.s
        /\ temporal' = r.t
        /\ lastOp' = op
        /\ UNCHANGED <<builder, worker, coaching>>

\* the step of the <workout-builder> component to b2
BuilderCommit(op, b2) ==
    \E r \in {b2} :
        /\ Len(r.history.history) <= MaxEntries
        /\ builder' = r
        /\ lastOp' = op
        /\ UNCHANGED <<store, temporal, worker, coaching>>

\* createHistoryManager(maxSize = 50)
DEFAULT_MAX_SIZE == 50

Init ==
    /\ store = InitialState
    /\ temporal = InitialTemporal
    /\ lastOp = <<"create">>
    /\ builder = WorkoutBuilder(DEFAULT_MAX_SIZE)
    /\ worker = TickWorker
    /\ coaching = CoachingText

\* Toolbar handleAddBlock and the store's addBlock(type, insertIndex)
AddBlock(types, insertIndexes) ==
    \E type \in types, insertIndex \in insertIndexes :
        /\ HasIds(1)
        /\ \E r \in {addBlock(W, type, insertIndex)} :
              Commit(IF r = W THEN <<"addBlock.refused">> ELSE <<"addBlock">>, r)

\* Toolbar handleAddInterval
AddIntervalSet(presets) ==
    \E preset \in presets :
        /\ HasIds(Len(preset.blocks) + 1)
        /\ Commit(<<"addIntervalSet">>, addIntervalSet(W, preset.blocks, preset.repeat))

UpdateBlock(updateSet) ==
    \E id \in ItemIds(Blocks), updates \in updateSet :
        Commit(<<"updateBlock", id, updates>>, updateBlock(W, id, updates))

DeleteBlock ==
    \E id \in ItemIds(Blocks) :
        /\ Commit(<<"deleteBlock", id>>, deleteBlock(W, id))

DeleteSelected ==
    /\ store.selectedIds /= <<>>
    /\ Commit(<<"deleteSelected">>, deleteSelected(W))

DuplicateBlock ==
    \E id \in ItemIds(Blocks) :
        /\ HasIds(DuplicateNeeds(Blocks, id))
        /\ Commit(<<"duplicateBlock">>, duplicateBlock(W, id))

MoveBlock ==
    \E id \in ItemIds(Blocks), newIndex \in 0..(Len(Blocks) - 1) :
        Commit(<<"moveBlock">>, moveBlock(W, id, newIndex))

\* Toolbar handleCreateRepeat: createRepeatGroup(selectedIds, count)
\* the ids of the top-level blocks of a tree
TopLevelBlockIds(blocks) ==
    {blocks[i].id : i \in {k \in DOMAIN blocks : isWorkoutBlock(blocks[k])}}

CreateRepeatGroup(counts) ==
    \E repeatCount \in counts :
        /\ Len(store.selectedIds) >= 1
        /\ HasIds(Cardinality(Range(store.selectedIds) \cap TopLevelBlockIds(Blocks)) + 1)
        /\ Commit(<<"createRepeatGroup", repeatCount>>,
                  createRepeatGroup(W, Range(store.selectedIds), repeatCount))

UngroupRepeat ==
    \E i \in DOMAIN Blocks :
        /\ isRepeatGroup(Blocks[i])
        /\ HasIds(Len(Blocks[i].blocks))
        /\ Commit(<<"ungroupRepeat">>, ungroupRepeat(W, Blocks[i].id))

UpdateRepeatCount(counts) ==
    \E i \in DOMAIN Blocks, count \in counts :
        /\ isRepeatGroup(Blocks[i])
        /\ Commit(<<"updateRepeatCount", Blocks[i].id, count>>,
                  updateRepeatCount(W, Blocks[i].id, count))

SelectBlock ==
    \E id \in ItemIds(Blocks), additive \in BOOLEAN :
        Commit(<<"selectBlock">>, selectBlock(W, id, additive))

ClearSelection ==
    /\ Commit(<<"clearSelection">>, clearSelection(W))

PointerDown(handles) ==
    \E block \in Range(LeafBlocks(Blocks)), handle \in handles :
        /\ store.dragState = <<>>
        /\ Commit(<<"handlePointerDown">>, handlePointerDown(W, block, handle))

\* the move and up handlers are those of the mounted component of the
\* dragged block
DragMounted ==
    /\ store.dragState /= <<>>
    /\ findBlockById(Blocks, store.dragState[1].blockId) /= <<>>

PointerMove(deltas) ==
    \E delta \in deltas :
        /\ DragMounted
        /\ Commit(<<"handlePointerMove">>, handlePointerMove(W, delta))

PointerUp ==
    /\ DragMounted
    /\ Commit(<<"handlePointerUp">>, handlePointerUp(W))

TypeChange(types) ==
    \E type \in types :
        /\ useSelectedBlock(store) /= <<>>
        /\ Commit(<<"handleTypeChange">>, handleTypeChange(W, useSelectedBlock(store)[1], type))

SetFTP(inputs) ==
    \E ftp \in inputs :
        /\ Commit(<<"setFTP", ftp>>, setFTP(W, ftp))

SetTargetDuration(inputs) ==
    \E duration \in inputs :
        /\ Commit(<<"setTargetDuration">>, setTargetDuration(W, duration))

SetDurationMode(modes) ==
    \E mode \in modes :
        /\ Commit(<<"setDurationMode", mode>>, setDurationMode(W, mode))

ToggleDurationMode ==
    /\ Commit(<<"toggleDurationMode">>, toggleDurationMode(W))

ToggleSnap ==
    /\ Commit(<<"toggleSnap">>, toggleSnap(W))

SetWorkout(workouts) ==
    \E workout \in workouts :
        /\ ItemIds(workout.blocks) \cap UsedIds(W) = {}
        /\ Commit(<<"setWorkout">>, setWorkout(W, workout))

SetWorkoutMeta(metas) ==
    \E meta \in metas :
        /\ Commit(<<"setWorkoutMeta">>, setWorkoutMeta(W, meta))

ClearWorkout ==
    /\ Commit(<<"clearWorkout">>, clearWorkout(W))

\* Toolbar undo/redo buttons and Ctrl+Z / Ctrl+Y
Undo ==
    /\ Commit(<<"undo">>, undo(W))

Redo ==
    /\ Commit(<<"redo">>, redo(W))

\* store operations called with an id that no item of the tree carries, as
\* by a caller that still holds the id of a deleted block
StaleIds == Ids \ ItemIds(Blocks)

StaleUpdateBlock(updateSet) ==
    \E id \in StaleIds, updates \in updateSet :
        /\ Commit(<<"stale", "updateBlock", id>>, updateBlock(W, id, updates))

StaleDeleteBlock ==
    \E id \in StaleIds :
        /\ Commit(<<"stale", "deleteBlock", id>>, deleteBlock(W, id))

StaleDuplicateBlock ==
    \E id \in StaleIds :
        /\ Commit(<<"stale", "duplicateBlock", id>>, duplicateBlock(W, id))

StaleMoveBlock ==
    \E id \in StaleIds, newIndex \in 0..Len(Blocks) :
        /\ Commit(<<"stale", "moveBlock", id>>, moveBlock(W, id, newIndex))

StaleUngroupRepeat ==
    \E id \in StaleIds :
        /\ Commit(<<"stale", "ungroupRepeat", id>>, ungroupRepeat(W, id))

StaleUpdateRepeatCount(counts) ==
    \E id \in StaleIds, count \in counts :
        /\ Commit(<<"stale", "updateRepeatCount", id>>, updateRepeatCount(W, id, count))

\* the browser attaches the <workout-builder> element to the document
ConnectedCallback ==
    /\ ~builder.connected
    /\ BuilderCommit(<<"connectedCallback">>, connectedCallback(builder))

\* toolbar buttons add-warmup, add-steady, add-cooldown
ToolbarAdd(types) ==
    \E type \in types :
        /\ builder.connected
        /\ builderHasId(builder)
        /\ BuilderCommit(<<"builder.addBlock">>, WorkoutBuilder_addBlock(builder, type))

\* toolbar button delete and the Delete key; lastOp records the selection
\* that deleteSelected found
ToolbarDelete ==
    /\ builder.connected
    /\ BuilderCommit(<<"builder.deleteSelected", builder.selectedId>>,
                     WorkoutBuilder_deleteSelected(builder))

\* the pointer goes down on the canvas beside the blocks, or on a handle of
\* the block drawn at one of the positions given
OnPointerDown(positions, handles) ==
    \E blockId \in {<<>>} \cup {<<builder.blocks[p].id>> : p \in positions \cap DOMAIN builder.blocks},
       handle \in handles :
        /\ builder.connected
        /\ BuilderCommit(<<"onPointerDown">>, onPointerDown(builder, blockId, handle))

OnPointerMove(deltas) ==
    \E delta \in deltas :
        /\ builder.connected
        /\ BuilderCommit(<<"onPointerMove">>, onPointerMove(builder, delta))

OnPointerUp ==
    /\ builder.connected
    /\ BuilderCommit(<<"onPointerUp">>, onPointerUp(builder))

\* toolbar buttons undo and redo, Ctrl+Z and Ctrl+Shift+Z; lastOp records
\* whether the history manager returned a snapshot
BuilderUndo ==
    /\ builder.connected
    /\ BuilderCommit(<<"builder.undo", history_undo(builder.history).found>>,
                     WorkoutBuilder_undo(builder))

BuilderRedo ==
    /\ builder.connected
    /\ BuilderCommit(<<"builder.redo", history_redo(builder.history).found>>,
                     WorkoutBuilder_redo(builder))

\* timers the tick worker may start, texts the coaching element may be
\* handed, and the end of the clock, in units of 500 ms
MaxTimers == 3

MaxTexts == 2

MaxClock == 24

\* a string message and a config message of the host page to the tick worker
Command(data) == [type |-> "", data |-> data, interval |-> 0]

Config(interval) == [type |-> "config", data |-> "", interval |-> interval]

\* the worker receives a message
WorkerMessage(messages) ==
    \E e \in messages :
        \E k \in {onMessage(worker, e)} :
            /\ k.nextTimer <= MaxTimers + 1
            /\ worker' = [k EXCEPT !.lastCommand =
                            IF e.type = "" /\ e.data \in {"start", "stop", "pause"}
                            THEN e.data ELSE @]
            /\ lastOp' = <<"worker.message", e>>
            /\ UNCHANGED <<store, temporal, builder, coaching>>

\* a running interval timer comes due and posts 'tick'
WorkerTick ==
    \E id \in worker.timers :
        /\ lastOp' = <<"worker.tick", id>>
        /\ UNCHANGED <<store, temporal, builder, worker, coaching>>

\* the browser attaches and detaches the <coaching-text> element
CoachingConnect ==
    /\ ~coaching.connected
    /\ coaching' = CoachingText_connectedCallback(coaching)
    /\ lastOp' = <<"coaching.connectedCallback">>
    /\ UNCHANGED <<store, temporal, builder, worker>>

CoachingDisconnect ==
    /\ coaching.connected
    /\ coaching' = CoachingText_disconnectedCallback(coaching)
    /\ lastOp' = <<"coaching.disconnectedCallback">>
    /\ UNCHANGED <<store, temporal, builder, worker>>

\* 'db:coachingText' is published with a text
CoachingTextArrives(texts) ==
    \E text \in texts :
        /\ coaching.connected
        /\ coaching.received < MaxTexts
        /\ coaching' = onCoachingText(coaching, text)
        /\ lastOp' = <<"onCoachingText", text>>
        /\ UNCHANGED <<store, temporal, builder, worker>>

\* a timeout that is due runs its callback
TimeoutFires ==
    \E t \in coaching.timeouts :
        /\ t.due <= coaching.now
        /\ coaching' = runTimeout(coaching, t)
        /\ lastOp' = <<"coaching.timeout", t>>
        /\ UNCHANGED <<store, temporal, builder, worker>>

\* 500 ms pass with no timeout due
TimePasses ==
    /\ coaching.now < MaxClock
    /\ \A t \in coaching.timeouts : t.due > coaching.now
    /\ coaching' = [coaching EXCEPT !.now = @ + 1]
    /\ lastOp' = <<"coaching.time">>
    /\ UNCHANGED <<store, temporal, builder, worker>>

(***************************************************************************)
(* Inputs.                                                                 *)
(***************************************************************************)
\* INTERVAL_PRESETS: Tabata
Tabata ==
    [blocks |-> <<[duration |-> 20, power |-> 150], [duration |-> 10, power |-> 45]>>,
     repeat |-> 8]

\* a workout handed to setWorkout that holds a repeat group and a block
GroupedWorkout ==
    [meta |-> [defaultMeta EXCEPT !.name = "Grouped"],
     blocks |-> <<[id |-> 1, type |-> "repeat", repeat |-> 3,
                   blocks |-> <<[id |-> 2, type |-> "steady", duration |-> 30, power |-> 120]>>],
                  [id |-> 3, type |-> "steady", duration |-> 300, power |-> 75]>>]

\* an addIntervalSet call with a single block definition
\* a saved workout of two blocks that differ in every field
TwoBlocks ==
    [meta |-> [defaultMeta EXCEPT !.name = "Two"],
     blocks |-> <<[id |-> 1, type |-> "warmup", duration |-> 600, power |-> 50, powerEnd |-> 80],
                  [id |-> 2, type |-> "steady", duration |-> 120, power |-> 110, cadence |-> 90]>>]

\* a saved workout of one hour at FTP
HourAtThreshold ==
    [meta |-> [defaultMeta EXCEPT !.name = "Hour"],
     blocks |-> <<[id |-> 1, type |-> "steady", duration |-> 3600, power |-> 100]>>]

\* INTERVAL_PRESETS '30/30s'
ThirtyThirty ==
    [blocks |-> <<[duration |-> 30, power |-> 120], [duration |-> 30, power |-> 50]>>,
     repeat |-> 8]

SingleInterval == [blocks |-> <<[duration |-> 30, power |-> 120]>>, repeat |-> 8]

\* updateBlock arguments of the property panel
SetDuration(seconds) == [vals |-> [duration |-> seconds], undef |-> {}]

SetPower(percent) == [vals |-> [power |-> percent], undef |-> {}]

\* a workout handed to setWorkout by the host page
LoadedWorkout ==
    [meta |-> [defaultMeta EXCEPT !.name = "Loaded"],
     blocks |-> <<[id |-> MaxId, type |-> "steady", duration |-> 600, power |-> 90]>>]

(***************************************************************************)
(* Editing in the builder in auto duration mode: the toolbar, the property *)
(* panel and the timeline's drag handles.                                  *)
(***************************************************************************)
Next ==
    \/ AddBlock({"steady", "ramp"}, {-1})
    \/ AddIntervalSet({Tabata})
    \/ UpdateBlock({SetDuration(5), SetPower(100)})
    \/ TypeChange({"warmup"})
    \/ DeleteBlock
    \/ DuplicateBlock
    \/ CreateRepeatGroup({4})
    \/ UngroupRepeat
    \/ UpdateRepeatCount({3})
    \/ PointerDown({"right", "top"})
    \/ PointerMove({-400, 37})
    \/ PointerUp
    \/ ToggleSnap
    \/ DeleteSelected

Spec == Init /\ [][Next]_vars

(***************************************************************************)
(* Editing with a fixed target duration.                                   *)
(***************************************************************************)
NextFixed ==
    \/ AddBlock({"steady", "warmup"}, {-1, 0})
    \/ AddIntervalSet({Tabata})
    \/ UpdateBlock({SetDuration(400), SetDuration(30), SetPower(100)})
    \/ UpdateRepeatCount({0, 3, 100})
    \/ DuplicateBlock
    \/ DeleteBlock
    \/ SetTargetDuration({200, 600})
    \/ ToggleDurationMode

SpecFixed == Init /\ [][NextFixed]_vars

(***************************************************************************)
(* Editing, loading and configuring with undo and redo.                    *)
(***************************************************************************)
NextUndo ==
    \/ AddBlock({"steady"}, {-1})
    \/ UpdateBlock({SetDuration(400)})
    \/ DeleteBlock
    \/ MoveBlock
    \/ SetFTP({250})
    \/ SetWorkout({LoadedWorkout})
    \/ SetWorkoutMeta({[name |-> "Intervals"]})
    \/ ClearWorkout
    \/ Undo
    \/ Redo

SpecUndo == Init /\ [][NextUndo]_vars

(***************************************************************************)
(* Undo and redo among changes of the configuration, the selection and the *)
(* drag state.                                                             *)
(***************************************************************************)
NextFrame ==
    \/ AddBlock({"steady"}, {-1})
    \/ PointerDown({"right"})
    \/ SetFTP({250})
    \/ SetTargetDuration({600})
    \/ Undo
    \/ Redo

SpecFrame == Init /\ [][NextFrame]_vars

(***************************************************************************)
(* The <workout-builder> component with a history manager of capacity      *)
(* MaxSize, and with one of the default capacity.                          *)
(***************************************************************************)
InitHistory ==
    /\ store = InitialState
    /\ temporal = InitialTemporal
    /\ lastOp = <<"create">>
    /\ builder \in {WorkoutBuilder(MaxSize), WorkoutBuilder(DEFAULT_MAX_SIZE)}
    /\ worker = TickWorker
    /\ coaching = CoachingText

NextHistory ==
    \/ ConnectedCallback
    \/ ToolbarDelete
    \/ OnPointerDown({1}, {"right"})
    \/ OnPointerMove({-400})
    \/ OnPointerUp
    \/ BuilderUndo
    \/ BuilderRedo

SpecHistory == InitHistory /\ [][NextHistory]_vars

(***************************************************************************)
(* A page that hosts one of the two builders: the store's builder is used  *)
(* while no <workout-builder> element is attached, and the element is      *)
(* attached to a page whose store was never used.                          *)
(***************************************************************************)
StoreUnused == W = [s |-> InitialState, t |-> InitialTemporal]

NextEither ==
    \/ ~builder.connected /\ AddBlock({"steady"}, {-1})
    \/ ~builder.connected /\ DeleteBlock
    \/ ~builder.connected /\ SetFTP({250})
    \/ ~builder.connected /\ Undo
    \/ ~builder.connected /\ Redo
    \/ StoreUnused /\ ConnectedCallback
    \/ ToolbarDelete
    \/ OnPointerDown({1}, {"right"})
    \/ OnPointerUp
    \/ BuilderUndo
    \/ BuilderRedo

SpecEither == InitHistory /\ [][NextEither]_vars

(***************************************************************************)
(* Editing while callers still hold ids of items that are gone.            *)
(***************************************************************************)
NextStale ==
    \/ AddBlock({"steady", "warmup"}, {-1})
    \/ AddIntervalSet({Tabata})
    \/ DeleteBlock
    \/ SelectBlock
    \/ StaleUpdateBlock({SetDuration(400), SetPower(100)})
    \/ StaleDeleteBlock
    \/ StaleDuplicateBlock
    \/ StaleMoveBlock
    \/ StaleUngroupRepeat
    \/ StaleUpdateRepeatCount({3})

SpecStale == Init /\ [][NextStale]_vars

(***************************************************************************)
(* Grouping: selecting items, creating, resizing and dissolving repeat     *)
(* groups, deleting blocks inside and outside of them.                     *)
(***************************************************************************)
NextGroup ==
    \/ AddBlock({"steady"}, {-1})
    \/ AddIntervalSet({Tabata, SingleInterval})
    \/ SetWorkout({GroupedWorkout, TwoBlocks})
    \/ SelectBlock
    \/ CreateRepeatGroup({1, 4, 100})
    \/ UpdateRepeatCount({0, 3, 100})
    \/ UngroupRepeat
    \/ DeleteBlock

SpecGroup == Init /\ [][NextGroup]_vars

(***************************************************************************)
(* Configuring: the FTP, the target duration and the duration mode, with   *)
(* inputs beyond their ranges, around a workout of long blocks.            *)
(***************************************************************************)
NextConfig ==
    \/ AddBlock({"steady"}, {-1})
    \/ UpdateBlock({SetDuration(30000)})
    \/ DeleteBlock
    \/ SetFTP({30, 250, 600})
    \/ SetTargetDuration({200, 600, 30000})
    \/ ToggleDurationMode

SpecConfig == Init /\ [][NextConfig]_vars

(***************************************************************************)
(* Dragging every handle of a block, with snapping on and off.             *)
(***************************************************************************)
\* a saved workout of one steady block at 30% of FTP
LowSteady ==
    [meta |-> [defaultMeta EXCEPT !.name = "Low"],
     blocks |-> <<[id |-> 1, type |-> "steady", duration |-> 300, power |-> 30]>>]

NextDrag ==
    \/ AddBlock({"steady", "ramp"}, {-1})
    \/ SetWorkout({LowSteady})
    \/ TypeChange({"cooldown"})
    \/ PointerDown({"move", "right", "top", "top-left", "top-right"})
    \/ PointerMove({-400, 0, 37, 400})
    \/ PointerUp
    \/ ToggleSnap

SpecDrag == Init /\ [][NextDrag]_vars

(***************************************************************************)
(* Switching the duration mode, between edits and during a drag.           *)
(***************************************************************************)
NextMode ==
    \/ AddBlock({"steady"}, {-1})
    \/ DeleteBlock
    \/ SetTargetDuration({600, 900})
    \/ SetDurationMode({"auto", "fixed"})
    \/ ToggleDurationMode
    \/ PointerDown({"right"})
    \/ PointerMove({400})
    \/ PointerUp

SpecMode == Init /\ [][NextMode]_vars

(***************************************************************************)
(* The metrics of the workouts the store builds and loads, under the FTPs  *)
(* the metrics panel accepts.                                              *)
(***************************************************************************)
NextMetrics ==
    \/ AddBlock(BlockType, {-1})
    \/ AddIntervalSet({Tabata, ThirtyThirty})
    \/ SetWorkout({HourAtThreshold, TwoBlocks, GroupedWorkout})
    \/ UpdateRepeatCount({3})
    \/ DeleteBlock
    \/ SetFTP({50, 250, 500})

SpecMetrics == Init /\ [][NextMetrics]_vars

(***************************************************************************)
(* Dragging the duration handle of top-level blocks and of blocks inside a *)
(* repeat group, in auto mode and under a fixed target.                    *)
(***************************************************************************)
NextPath ==
    \/ AddBlock({"steady"}, {-1})
    \/ SetWorkout({GroupedWorkout, TwoBlocks})
    \/ SetTargetDuration({600, 900})
    \/ ToggleDurationMode
    \/ PointerDown({"right"})
    \/ PointerMove({-400, 37, 400})
    \/ PointerUp

SpecPath == Init /\ [][NextPath]_vars

(***************************************************************************)
(* Editing durations in the property panel of a loaded workout whose       *)
(* target is then fixed, at or below its content.                          *)
(***************************************************************************)
NextCap ==
    \/ SetWorkout({GroupedWorkout, TwoBlocks})
    \/ SetTargetDuration({200, 600, 900})
    \/ ToggleDurationMode
    \/ UpdateBlock({SetDuration(30), SetDuration(45), SetDuration(400)})
    \/ DeleteBlock

SpecCap == Init /\ [][NextCap]_vars

(***************************************************************************)
(* The tick worker under the messages of its host page.                    *)
(***************************************************************************)
NextWorker ==
    \/ WorkerMessage({Command("start"), Command("stop"), Command("pause"),
                      Command("reset"), Config(0), Config(500), Config(2000)})
    \/ WorkerTick

SpecWorker == Init /\ [][NextWorker]_vars

(***************************************************************************)
(* The coaching text element: texts arriving while time passes and         *)
(* timeouts run.                                                           *)
(***************************************************************************)
NextCoaching ==
    \/ CoachingConnect
    \/ CoachingDisconnect
    \/ CoachingTextArrives({"", "Spin up", "Recover"})
    \/ TimeoutFires
    \/ TimePasses

SpecCoaching == Init /\ [][NextCoaching]_vars

\* ---------------------------------------------------------------------------
\* The snap functions applied to drawn inputs
\* ---------------------------------------------------------------------------
\* durations in whole seconds up to MaxSeconds, powers in whole hundredths of
\* FTP from 0.02 up to MaxHundredths / 100
MaxSeconds == 3700

MaxHundredths == 300

InitSnap ==
    /\ store = InitialState
    /\ temporal = InitialTemporal
    /\ builder = WorkoutBuilder(DEFAULT_MAX_SIZE)
    /\ worker = TickWorker
    /\ coaching = CoachingText
    /\ lastOp \in {<<"duration", x>> : x \in 0..MaxSeconds}
                    \cup {<<"power", h>> : h \in 2..MaxHundredths}

SnapDuration ==
    /\ lastOp[1] = "duration"
    /\ lastOp' = <<"snapDuration", lastOp[2],
                   snapDuration(lastOp[2], store.snapConfig.duration)>>
    /\ UNCHANGED <<store, temporal, builder, worker, coaching>>

SnapDurationAgain ==
    /\ lastOp[1] = "snapDuration"
    /\ lastOp' = <<"snapDuration.snapDuration", lastOp[2], lastOp[3],
                   snapDuration(lastOp[3], store.snapConfig.duration)>>
    /\ UNCHANGED <<store, temporal, builder, worker, coaching>>

SnapPower ==
    /\ lastOp[1] = "power"
    /\ lastOp' = <<"snapPower", lastOp[2],
                   snapPowerNumber(Hundredths(lastOp[2]), store.snapConfig.power)>>
    /\ UNCHANGED <<store, temporal, builder, worker, coaching>>

SnapPowerAgain ==
    /\ lastOp[1] = "snapPower"
    /\ lastOp' = <<"snapPower.snapPower", lastOp[2], lastOp[3],
                   snapPowerNumber(lastOp[3], store.snapConfig.power)>>
    /\ UNCHANGED <<store, temporal, builder, worker, coaching>>

NextSnap ==
    \/ SnapDuration
    \/ SnapDurationAgain
    \/ SnapPower
    \/ SnapPowerAgain

SpecSnap == InitSnap /\ [][NextSnap]_vars

\* C5: in fixed duration mode, with the total duration at or above
\* targetDuration, addBlock is refused: the blocks, the selection and the undo
\* history are after the call what they were before it.
C5_AddBlockRefusedWhenFull ==
    [][(/\ lastOp'[1] \in {"addBlock", "addBlock.refused"}
        /\ store.durationMode = "fixed"
        /\ getTotalDuration(store.workout.blocks) >= store.targetDuration)
       => (/\ store'.workout.blocks = store.workout.blocks
           /\ store'.selectedIds = store.selectedIds
           /\ temporal' = temporal)]_vars

\* a refused addBlock on a workout that fills or exceeds a fixed target
C5_Witness ==
    /\ lastOp[1] = "addBlock.refused"
    /\ store.durationMode = "fixed"
    /\ Blocks /= <<>>
    /\ getTotalDuration(Blocks) >= store.targetDuration

\* the total duration once block id has duration d
TotalWith(blocks, id, d) == getTotalDuration(updateInBlocks(blocks, id, SetDuration(d)))

\* C6: in fixed duration mode, an updateBlock(id, {duration: d}) that would push
\* the total duration above targetDuration leaves the total equal to
\* targetDuration whenever some duration of at least 60 s does that, and the
\* block at 60 s otherwise; for top-level blocks and for children of a group.
C6_UpdateBlockFillsTarget ==
    [][(/\ lastOp'[1] = "updateBlock"
        /\ store.durationMode = "fixed"
        /\ "duration" \in DOMAIN lastOp'[3].vals
        /\ findBlockById(store.workout.blocks, lastOp'[2]) /= <<>>
        /\ TotalWith(store.workout.blocks, lastOp'[2], lastOp'[3].vals.duration)
              > store.targetDuration)
       => LET id == lastOp'[2]
              fills == {x \in 60..store.targetDuration :
                          TotalWith(store.workout.blocks, id, x) = store.targetDuration}
          IN  IF fills /= {}
              THEN getTotalDuration(store'.workout.blocks) = store.targetDuration
              ELSE findBlockById(store'.workout.blocks, id)[1].duration = 60]_vars

\* C8: in fixed duration mode, an updateRepeatCount(groupId, count) that makes
\* the total duration exceed the previous targetDuration extends targetDuration
\* to exactly the resulting total, the group holding count clamped to [1, 99].
C8_RepeatCountExtendsTarget ==
    [][(/\ lastOp'[1] = "updateRepeatCount"
        /\ store.durationMode = "fixed"
        /\ getTotalDuration(store'.workout.blocks) > store.targetDuration)
       => (/\ store'.targetDuration = getTotalDuration(store'.workout.blocks)
           /\ \E i \in DOMAIN store'.workout.blocks :
                /\ store'.workout.blocks[i].id = lastOp'[2]
                /\ store'.workout.blocks[i].repeat = clamp(lastOp'[3], 1, 99))]_vars

\* C1: every block of the tree, top-level or inside a repeat group, has power
\* and (when present) powerEnd within [0.20, 2.00] and a duration of at least
\* 15 seconds.
C1_BlocksWithinLimits ==
    \A b \in Range(LeafBlocks(Blocks)) :
        /\ b.power \in 20..200
        /\ "powerEnd" \in DOMAIN b => b.powerEnd \in 20..200
        /\ b.duration >= 15

\* C4: a whole drag (pointer down on a handle, two pointer moves, pointer up)
\* that changes the workout makes one more undo step available, and one undo
\* after the release restores the workout of before the drag.
C4_DragIsOneHistoryEntry ==
    \A block \in Range(LeafBlocks(Blocks)), handle \in {"right", "top"},
       delta1, delta2 \in {-400, 37} :
        LET down == handlePointerDown(W, block, handle)
            moved == handlePointerMove(handlePointerMove(down, delta1), delta2)
            released == handlePointerUp(moved)
        IN  (store.dragState = <<>> /\ released.s.workout /= store.workout)
            => /\ Len(released.t.pastStates) = Len(temporal.pastStates) + 1
               /\ undo(released).s.workout = store.workout

\* the operations that edit the tree directly
DirectEdits ==
    {"addBlock", "addIntervalSet", "updateBlock", "handleTypeChange", "deleteBlock",
     "deleteSelected", "duplicateBlock", "createRepeatGroup", "ungroupRepeat",
     "updateRepeatCount"}

\* C7: in auto duration mode, right after a direct edit made with no drag in
\* progress, or after a drag release, targetDuration is the total duration
\* rounded up to a multiple of 300 s, and at least 300 s.
C7_AutoFitAfterSettle ==
    [][(/\ store'.durationMode = "auto"
        /\ \/ lastOp'[1] \in DirectEdits /\ store.dragState = <<>>
           \/ lastOp'[1] = "handlePointerUp")
       => store'.targetDuration =
            Max(300, Ceil(getTotalDuration(store'.workout.blocks), 300) * 300)]_vars

\* a drag release that left content between two multiples of 300 s
C7_Witness ==
    /\ lastOp[1] = "handlePointerUp"
    /\ store.durationMode = "auto"
    /\ store.dragState = <<>>
    /\ getTotalDuration(Blocks) % 300 /= 0
    /\ store.targetDuration > 300

\* C2: workout.meta's duration, tss, intensityFactor and normalizedPower, and
\* the store's metrics, are calculateWorkoutMetrics of the current blocks and
\* the current ftp, in every state.
C2_MetaIsDerived ==
    LET m == calculateWorkoutMetrics(Blocks, store.ftp)
    IN  /\ store.metrics = m
        /\ store.workout.meta.duration = m.duration
        /\ store.workout.meta.tss = m.tss
        /\ store.workout.meta.intensityFactor = m.intensityFactor
        /\ store.workout.meta.normalizedPower = m.normalizedPower

\* the structural operations
StructuralOps ==
    {"addBlock", "deleteBlock", "duplicateBlock", "createRepeatGroup", "ungroupRepeat",
     "updateRepeatCount", "updateBlock"}

\* C3: once a structural operation made with no drag in progress has turned
\* tree A into a different tree B, one undo makes the tree A again and a
\* following redo makes it B.
C3_UndoRedoInverse ==
    [][(/\ lastOp'[1] \in StructuralOps
        /\ store.dragState = <<>>
        /\ store'.workout.blocks /= store.workout.blocks)
       => LET undone == undo([s |-> store', t |-> temporal'])
          IN  /\ undone.s.workout.blocks = store.workout.blocks
              /\ redo(undone).s.workout.blocks = store'.workout.blocks]_vars

\* C9: right after setWorkout the tree is the loaded one, the selection is
\* empty and the history is reset: neither undo nor redo is available.
C9_LoadResetsHistory ==
    lastOp[1] = "setWorkout"
    => /\ Blocks = LoadedWorkout.blocks
       /\ store.selectedIds = <<>>
       /\ temporal.pastStates = <<>>
       /\ temporal.futureStates = <<>>

\* C10: undo and redo leave ftp, targetDuration, durationMode, snapConfig,
\* selectedIds and dragState as they were.
C10_UndoRedoKeepConfiguration ==
    [][lastOp'[1] \in {"undo", "redo"}
       => /\ store'.ftp = store.ftp
          /\ store'.targetDuration = store.targetDuration
          /\ store'.durationMode = store.durationMode
          /\ store'.snapConfig = store.snapConfig
          /\ store'.selectedIds = store.selectedIds
          /\ store'.dragState = store.dragState]_vars

\* an undo that took a block away under a fixed target, a changed ftp, a
\* selection and a drag session
C10_Witness ==
    /\ lastOp[1] = "undo"
    /\ temporal.futureStates /= <<>>
    /\ Blocks /= Last(temporal.futureStates).workout.blocks
    /\ store.durationMode = "fixed"
    /\ store.ftp = 250
    /\ store.selectedIds /= <<>>
    /\ store.dragState /= <<>>

\* C11: for the history manager of createHistoryManager, push(state) with a
\* state deep-equal to the most recent entry is a no-op: when a drag is
\* released without having changed the tree, the number of stored entries,
\* the cursor, canUndo() and canRedo() are what they were before.
C11_PushOfEqualStateIsNoOp ==
    [][(/\ lastOp'[1] = "onPointerUp"
        /\ builder.dragState /= <<>>
        /\ builder.history.currentIndex >= 0
        /\ JsonClone(builder.blocks) = builder.history.history[builder.history.currentIndex + 1])
       => (/\ Len(builder'.history.history) = Len(builder.history.history)
           /\ builder'.history.currentIndex = builder.history.currentIndex
           /\ history_canUndo(builder'.history) = history_canUndo(builder.history)
           /\ history_canRedo(builder'.history) = history_canRedo(builder.history))]_vars

\* C14: in every reachable state of a history manager canUndo() is true
\* exactly when undo() would return a snapshot and canRedo() exactly when
\* redo() would; undo() with the cursor at the oldest entry (or with no
\* entry) and redo() with the cursor at the newest entry return null and
\* leave the cursor and the entries as they were.
C14_UndoRedoAtTheEnds ==
    LET h == builder.history
    IN  /\ history_canUndo(h) = history_undo(h).found
        /\ history_canRedo(h) = history_redo(h).found
        /\ h.currentIndex <= 0
              => /\ ~history_undo(h).found
                 /\ history_undo(h).h = h
                 /\ WorkoutBuilder_undo(builder) = builder
        /\ h.currentIndex >= Len(h.history) - 1
              => /\ ~history_redo(h).found
                 /\ history_redo(h).h = h
                 /\ WorkoutBuilder_redo(builder) = builder

\* undo was pressed with the cursor on the oldest of several entries
C14_Witness ==
    /\ lastOp = <<"builder.undo", FALSE>>
    /\ builder.history.currentIndex = 0
    /\ Len(builder.history.history) >= 2

\* the operations of the <workout-builder> component that end in saveHistory
BuilderCommits == {"builder.addBlock", "builder.deleteSelected", "onPointerUp"}

\* C12: after one or more undos, committing a tree that differs from the
\* current one discards every undone entry: right after it canRedo is false
\* and redo() changes nothing.  This holds for createHistoryManager.push
\* (through the component's saveHistory) and for a tree-changing edit of the
\* store.
C12_CommitDiscardsRedo ==
    [][/\ (/\ lastOp'[1] \in BuilderCommits
           /\ history_canRedo(builder.history)
           /\ builder'.history /= builder.history
           /\ JsonClone(builder'.blocks)
                 /= builder.history.history[builder.history.currentIndex + 1])
          => (/\ ~history_canRedo(builder'.history)
              /\ WorkoutBuilder_redo(builder') = builder')
       /\ (/\ lastOp'[1] \notin {"undo", "redo"}
           /\ Len(temporal.futureStates) > 0
           /\ store'.workout.blocks /= store.workout.blocks)
          => (/\ Len(temporal'.futureStates) = 0
              /\ redo([s |-> store', t |-> temporal']) = [s |-> store', t |-> temporal'])]_vars

\* a block was deleted in the component after undoing back to the oldest of
\* the entries of connectedCallback: the new entry is the second and last
C12_Witness ==
    /\ builder.history.maxSize = DEFAULT_MAX_SIZE
    /\ lastOp[1] = "builder.deleteSelected"
    /\ lastOp[2] /= <<>>
    /\ Len(builder.history.history) = 2
    /\ ~history_canRedo(builder.history)

\* the last n entries of a sequence
LastN(s, n) == SubSeq(s, Max(1, Len(s) - n + 1), Len(s))

\* the trees connectedCallback commits: one after each of its four addBlock
\* calls, the last of them once more
ConnectCommits(blocks) ==
    [k \in 1..5 |-> JsonClone(SubSeq(blocks, 1, Min(k, 4)))]

\* n further setFTP calls, alternating between 250 W and 200 W; the first
\* half of the calls is evaluated before the second half is entered
RECURSIVE SetFTPs(_, _)
SetFTPs(w, n) ==
    IF n = 0 THEN w
    ELSE IF n = 1 THEN setFTP(w, IF w.s.ftp = 200 THEN 250 ELSE 200)
    ELSE LET half == SetFTPs(w, n \div 2)
         IN  IF half = w
             THEN SetFTPs(w, n - (n \div 2))
             ELSE SetFTPs(half, n - (n \div 2))

\* C13: the history never holds more entries than its capacity, and the
\* entries it holds are the most recent commits in commit order, the oldest
\* having been evicted first.  For a history manager the capacity is maxSize:
\* a commit leaves the last maxSize of the entries up to the cursor followed
\* by the new tree.  For the store the capacity is HISTORY.MAX_SIZE undo
\* entries: after 99 further tracked changes of a workout to which a block
\* was just added, pastStates holds 100 entries of which the oldest is the
\* newest the history had held, and one tracked change later the oldest is
\* the state the changes started from.
C13_HistoryWithinCapacity ==
    [][/\ Len(builder'.history.history) <= builder'.history.maxSize
       /\ (/\ lastOp'[1] \in BuilderCommits
           /\ builder'.history /= builder.history)
          => builder'.history.history
                = LastN(Append(SubSeq(builder.history.history, 1,
                                      builder.history.currentIndex + 1),
                               JsonClone(builder'.blocks)),
                        builder.history.maxSize)
       /\ lastOp'[1] = "connectedCallback"
          => builder'.history.history
                = LastN(ConnectCommits(builder'.blocks), builder.history.maxSize)
       /\ Len(temporal'.pastStates) <= HISTORY_MAX_SIZE
       /\ (/\ lastOp = <<"addBlock">>
           /\ lastOp'[1] = "setFTP"
           /\ Len(temporal'.pastStates) >= 1)
          => \E r \in {SetFTPs([s |-> store', t |-> temporal'], HISTORY_MAX_SIZE - 1)} :
                /\ Len(r.t.pastStates) = HISTORY_MAX_SIZE
                /\ r.t.pastStates[1] = Last(temporal'.pastStates)
                /\ r.t.pastStates[HISTORY_MAX_SIZE] /= partialize(r.s)
                /\ \E r1 \in {SetFTPs(r, 1)} :
                      /\ Len(r1.t.pastStates) = HISTORY_MAX_SIZE
                      /\ r1.t.pastStates[1] = partialize(store')
                      /\ r1.t.pastStates[HISTORY_MAX_SIZE] = partialize(r.s)]_vars

\* the small history manager is full and a block was deleted: the oldest
\* entry was evicted
C13_Witness ==
    /\ builder.history.maxSize = MaxSize
    /\ lastOp[1] = "builder.deleteSelected"
    /\ lastOp[2] /= <<>>
    /\ Len(builder.history.history) = MaxSize
    /\ builder.history.currentIndex = MaxSize - 1
    /\ builder.history.history[MaxSize] = JsonClone(builder.blocks)
    /\ Len(builder.blocks) = 3

\* C15: updateBlock, deleteBlock, duplicateBlock, moveBlock, ungroupRepeat
\* and updateRepeatCount called with an id that matches no item of the
\* current tree complete and leave workout.blocks as it was.
C15_UnknownIdLeavesBlocks ==
    [][(/\ lastOp'[1] = "stale"
        /\ lastOp'[3] \notin ItemIds(store.workout.blocks))
       => store'.workout.blocks = store.workout.blocks]_vars

\* deleteBlock was called with an id that is not in the tree, on a tree that
\* holds a repeat group and a block
C15_Witness ==
    /\ lastOp[1] = "stale"
    /\ lastOp[2] = "deleteBlock"
    /\ lastOp[3] \notin ItemIds(Blocks)
    /\ \E i, j \in DOMAIN Blocks : isRepeatGroup(Blocks[i]) /\ isWorkoutBlock(Blocks[j])

\* C16: createRepeatGroup(blockIds, n) is refused as a no-op, creating no
\* group and leaving workout.blocks as it was, whenever blockIds contains an
\* id that is not a top-level block of the tree, such as the id of a block
\* inside a repeat group or the id of a repeat group.
C16_GroupAcrossBoundaryRefused ==
    [][(/\ lastOp'[1] = "createRepeatGroup"
        /\ \E id \in Range(store.selectedIds) :
              id \notin TopLevelBlockIds(store.workout.blocks))
       => store'.workout.blocks = store.workout.blocks]_vars

\* the positions <<i, j>> at which id is a child of a repeat group of the tree
ChildPositions(blocks, id) ==
    {p \in (DOMAIN blocks) \X (1..MaxId) :
        /\ isRepeatGroup(blocks[p[1]])
        /\ p[2] \in DOMAIN blocks[p[1]].blocks
        /\ blocks[p[1]].blocks[p[2]].id = id}

NoEmptyGroup(blocks) ==
    \A i \in DOMAIN blocks : isRepeatGroup(blocks[i]) => Len(blocks[i].blocks) >= 1

\* C17: deleteBlock(id) of a block inside a repeat group removes exactly
\* that child and leaves the other children of the group and every other
\* item as they were; when the block was the last child of the group, the
\* group is removed with it.  No tree the store reaches holds a repeat group
\* without children.
C17_DeleteInsideGroup ==
    [][/\ NoEmptyGroup(store'.workout.blocks)
       /\ lastOp'[1] = "deleteBlock"
          => \A p \in ChildPositions(store.workout.blocks, lastOp'[2]) :
                store'.workout.blocks
                   = IF Len(store.workout.blocks[p[1]].blocks) = 1
                     THEN RemoveAt(store.workout.blocks, p[1] - 1)
                     ELSE [store.workout.blocks EXCEPT
                             ![p[1]].blocks = RemoveAt(@, p[2] - 1)]]_vars

\* the only child of a repeat group was deleted, and the group went with it
C17_Witness ==
    /\ lastOp[1] = "deleteBlock"
    /\ \E k \in DOMAIN temporal.pastStates :
          \E p \in ChildPositions(temporal.pastStates[k].workout.blocks, lastOp[2]) :
             /\ Len(temporal.pastStates[k].workout.blocks[p[1]].blocks) = 1
             /\ temporal.pastStates[k].workout.blocks[p[1]].id \notin ItemIds(Blocks)
    /\ lastOp[2] \notin ItemIds(Blocks)
    /\ Blocks /= <<>>

\* C18: every repeat group of the tree has a repeat count that is an
\* integer within [1, 99]: a count outside of it passed to createRepeatGroup,
\* addIntervalSet or updateRepeatCount is clamped to the nearest bound.
C18_RepeatCountWithinRange ==
    \A i \in DOMAIN Blocks :
        isRepeatGroup(Blocks[i]) => Blocks[i].repeat \in 1..99

\* C19: targetDuration lies within [300, 28800] seconds in every reachable
\* state of the store, whichever of setTargetDuration, the auto-fit of
\* recalculateMetrics or the extension in updateRepeatCount wrote it last.
C19_TargetDurationWithinRange ==
    store.targetDuration \in 300..28800

\* C20: ftp lies within [50, 500] in every reachable state of the store, and
\* setFTP(x) stores x clamped to the nearest of the two bounds, whatever x.
C20_FtpWithinRange ==
    [][/\ store'.ftp \in 50..500
       /\ lastOp'[1] = "setFTP"
          => store'.ftp = (IF lastOp'[2] < 50 THEN 50
                           ELSE IF lastOp'[2] > 500 THEN 500 ELSE lastOp'[2])]_vars

\* setFTP was called with 600 W on a workout that has a block
C20_Witness ==
    /\ lastOp = <<"setFTP", 600>>
    /\ store.ftp = 500
    /\ Blocks /= <<>>
    /\ store.metrics.normalizedPower > 0

\* ---------------------------------------------------------------------------
\* C21  grouping with repeat 1 and ungrouping again keeps the contents
\* ---------------------------------------------------------------------------
\* the content of a block: every field but its id
ContentOf(block) == [k \in DOMAIN block \ {"id"} |-> block[k]]

\* how often a content occurs among the blocks of a tree, groups opened
ContentCount(blocks, content) ==
    LET leaves == LeafBlocks(blocks)
    IN  Cardinality({i \in DOMAIN leaves : ContentOf(leaves[i]) = content})

SameContents(before, after) ==
    LET leaves == LeafBlocks(before) \o LeafBlocks(after)
    IN  \A i \in DOMAIN leaves :
            ContentCount(before, ContentOf(leaves[i])) = ContentCount(after, ContentOf(leaves[i]))

\* the store after createRepeatGroup; the ids that only its history still
\* holds are free for the ungroupRepeat that follows
Regrouped == [s |-> store', t |-> InitialTemporal]

\* C21: when createRepeatGroup(S, 1) has made a group of a set S of top-level
\* blocks, ungroupRepeat of that group gives a tree whose blocks carry the same
\* multiset of contents (every field but the id) as the tree before grouping.
C21_GroupThenUngroupKeepsContents ==
    [][(/\ lastOp' = <<"createRepeatGroup", 1>>
        /\ Range(store.selectedIds) \subseteq TopLevelBlockIds(Blocks))
       => /\ Len(store'.selectedIds) = 1
          /\ SameContents(Blocks,
                 ungroupRepeat(Regrouped, store'.selectedIds[1]).s.workout.blocks)
          /\ Len(ungroupRepeat(Regrouped, store'.selectedIds[1]).s.workout.blocks) = Len(Blocks)]_vars

\* a group of repeat 1 was just made of the two different blocks of a tree
C21_Witness ==
    /\ lastOp = <<"createRepeatGroup", 1>>
    /\ Len(Blocks) = 1
    /\ isRepeatGroup(Blocks[1])
    /\ Blocks[1].repeat = 1
    /\ Len(Blocks[1].blocks) = 2
    /\ Blocks[1].blocks[1].duration = 600
    /\ Blocks[1].blocks[2].duration = 120

\* ---------------------------------------------------------------------------
\* C22  snapDuration and snapPower are idempotent
\* ---------------------------------------------------------------------------
\* C22: for every input x, under the snap configuration the store holds,
\* snapDuration(snapDuration(x)) = snapDuration(x) and
\* snapPower(snapPower(x)) = snapPower(x).
C22_SnapIsIdempotent ==
    lastOp[1] \in {"snapDuration.snapDuration", "snapPower.snapPower"}
        => lastOp[4] = lastOp[3]

\* the part of C22 that is about snapDuration alone
C22_SnapDurationIsIdempotent ==
    lastOp[1] = "snapDuration.snapDuration" => lastOp[4] = lastOp[3]

\* ---------------------------------------------------------------------------
\* C23  what snapDuration returns
\* ---------------------------------------------------------------------------
\* C23: snapDuration(v, config) returns a configured threshold that lies within
\* 5 seconds of v when there is one, and otherwise the multiple of
\* config.increment nearest to v; under the default configuration
\* snapDuration(67) = 60 and snapDuration(68) = 75.
C23_SnapDurationResult ==
    lastOp[1] = "snapDuration" =>
        LET v == lastOp[2]
            r == lastOp[3]
            config == store.snapConfig.duration
            within == {t \in Range(config.thresholds) : Abs(v - t) <= 5}
            multiples == {k * config.increment : k \in 0..(MaxSeconds \div config.increment + 1)}
        IN  /\ within /= {} => r \in within
            /\ within = {} =>
                  /\ r \in multiples
                  /\ \A m \in multiples : Abs(r - v) <= Abs(m - v)
            /\ (config = DEFAULT_SNAP_CONFIG.duration /\ v = 67) => r = 60
            /\ (config = DEFAULT_SNAP_CONFIG.duration /\ v = 68) => r = 75

\* snapDuration was applied to 68 seconds, which no threshold is within 5 of
C23_Witness ==
    /\ lastOp[1] = "snapDuration"
    /\ lastOp[2] = 68
    /\ \A t \in Range(store.snapConfig.duration.thresholds) : Abs(68 - t) > 5

\* ---------------------------------------------------------------------------
\* C24  a pointer-move writes values within the hard bounds
\* ---------------------------------------------------------------------------
WithinPower(p) == p >= DEFAULT_DISPLAY_CONFIG.minPower /\ p <= DEFAULT_DISPLAY_CONFIG.maxPower

\* C24: whatever the handle (right, top, top-left, top-right), the pointer
\* travel and the snap configuration, the values a pointer-move has written
\* into the dragged block are within the hard bounds: a duration of at least
\* 15 s, power and powerEnd within [0.20, 2.00].
C24_DragWritesWithinBounds ==
    (lastOp[1] = "handlePointerMove" /\ DragMounted) =>
        LET dragState == store.dragState[1]
            block == findBlockById(Blocks, dragState.blockId)[1]
        IN  /\ dragState.handle = "right" =>
                block.duration >= DEFAULT_DISPLAY_CONFIG.minDuration
            /\ dragState.handle \in {"top", "top-left"} =>
                WithinPower(block.power) /\ WithinPower(block.powerEnd)
            /\ dragState.handle = "top-right" => WithinPower(block.powerEnd)

\* ---------------------------------------------------------------------------
\* C25  an abandoned drag leaves the pre-drag tree
\* ---------------------------------------------------------------------------
\* C25: when the drag session is discarded (setDragState(null)) after the first
\* pointer-move of a drag, the workout tree equals the tree before the drag.
C25_AbandonedDragRevertsTree ==
    [][(lastOp[1] = "handlePointerDown" /\ lastOp'[1] = "handlePointerMove")
       => setDragState([s |-> store', t |-> temporal'], <<>>).s.workout.blocks
            = store.workout.blocks]_vars

\* ---------------------------------------------------------------------------
\* C26  the training stress score
\* ---------------------------------------------------------------------------
\* twice the effective power of a block, in percent: power + powerEnd for
\* warmup, cooldown and ramp blocks, 2 * 50 for a free ride, 2 * power otherwise
TwiceEffectivePower(block) ==
    CASE block.type \in {"warmup", "cooldown", "ramp"} -> block.power + block.powerEnd
      [] block.type = "freeride" -> 100
      [] OTHER -> 2 * block.power

\* the sum over all blocks, each counted repeat times inside a group, of
\* duration * (2 * effective power in percent)^2
StressSum(blocks) ==
    LET OfBlock(block) == block.duration * TwiceEffectivePower(block) * TwiceEffectivePower(block)
        OfItem(item) ==
            IF isRepeatGroup(item)
            THEN item.repeat * SeqSum([j \in DOMAIN item.blocks |-> OfBlock(item.blocks[j])])
            ELSE OfBlock(item)
    IN  SeqSum([i \in DOMAIN blocks |-> OfItem(blocks[i])])

C27_IntensityFactorIsPowerOverFtp ==
    (store.ftp >= 50 /\ store.ftp <= 500) =>
        store.metrics.intensityFactor * store.ftp = store.metrics.normalizedPower * 100

\* ---------------------------------------------------------------------------
\* C28  three ways to the total duration
\* ---------------------------------------------------------------------------
\* C28: on a tree whose groups have repeat counts of at least 1,
\* getTotalDuration equals the sum of the durations of the flattened workout
\* and the duration of the metrics; a group of two 30 s blocks repeated 8
\* times counts 480 s.
C28_TotalDurationThreeWays ==
    (\A i \in DOMAIN Blocks : isRepeatGroup(Blocks[i]) => Blocks[i].repeat >= 1) =>
        LET flatBlocks == flattenWorkoutBlocks(Blocks)
        IN  /\ getTotalDuration(Blocks)
                 = SeqSum([k \in DOMAIN flatBlocks |-> flatBlocks[k].duration])
            /\ getTotalDuration(Blocks) = store.metrics.duration
            /\ getTotalDuration(Blocks)
                 = calculateWorkoutMetrics(Blocks, store.ftp).duration
            /\ \A i \in DOMAIN Blocks :
                  (/\ isRepeatGroup(Blocks[i])
                   /\ Blocks[i].repeat = 8
                   /\ ChildDurations(Blocks[i]) = <<30, 30>>)
                  => getBlockDuration(Blocks[i]) = 480

\* the tree is one group of two 30 s blocks repeated 8 times
C28_Witness ==
    /\ Len(Blocks) = 1
    /\ isRepeatGroup(Blocks[1])
    /\ Blocks[1].repeat = 8
    /\ ChildDurations(Blocks[1]) = <<30, 30>>
    /\ store.metrics.duration = 480

\* ---------------------------------------------------------------------------
\* C29  the zone distribution
\* ---------------------------------------------------------------------------
\* the zone of the power num / den percent by the zones' limits: the zone
\* whose min it reaches and whose max it stays below, the last zone from
\* 2.00 on
ZoneOf(num, den) ==
    IF num >= 200 * den THEN 5
    ELSE CHOOSE z \in 0..5 :
            num >= POWER_ZONES[z].min * den /\ num < POWER_ZONES[z].max * den

\* the blocks of the repeat-expanded workout that are no free ride
Ridden(blocks) ==
    LET flatBlocks == flattenWorkoutBlocks(blocks)
    IN  {k \in DOMAIN flatBlocks : flatBlocks[k].type /= "freeride"}

\* the seconds of the expanded workout whose power is in a zone: the whole
\* duration of a block of constant power, the seconds t of a ramp whose
\* interpolated power power + (powerEnd - power) * t / duration is in the zone
SecondsIn(blocks, zone) ==
    LET flatBlocks == flattenWorkoutBlocks(blocks)
        Of(b) ==
            IF "powerEnd" \in DOMAIN b /\ b.powerEnd /= b.power
            THEN Cardinality({t \in 0..(b.duration - 1) :
                    ZoneOf(b.power * (b.duration - t) + b.powerEnd * t, b.duration) = zone})
            ELSE IF ZoneOf(b.power, 1) = zone THEN b.duration ELSE 0
    IN  SeqSum([k \in DOMAIN flatBlocks |->
                    IF k \in Ridden(blocks) THEN Of(flatBlocks[k]) ELSE 0])

ModeSwitch(from, to) ==
    /\ lastOp'[1] \in {"setDurationMode", "toggleDurationMode"}
    /\ store.durationMode = from
    /\ store'.durationMode = to

C31_SetFtpCommitsNoHistory ==
    [][(lastOp'[1] = "setFTP" /\ Blocks /= <<>>)
       => /\ store'.workout.blocks = Blocks
          /\ store'.selectedIds = store.selectedIds
          /\ Len(temporal'.pastStates) = Len(temporal.pastStates)
          /\ (temporal'.pastStates /= <<>>) = (temporal.pastStates /= <<>>)
          /\ (temporal'.futureStates /= <<>>) = (temporal.futureStates /= <<>>)]_vars

\* C32: a drag of the duration handle that ends at a pointer position leaves
\* the tree that a drag straight to that position leaves, whatever position
\* the pointer passed through on the way, in auto and in fixed mode, for
\* top-level blocks and for blocks inside repeat groups.
C32_DragIsPathIndependent ==
    \A block \in Range(LeafBlocks(Blocks)), via, offset \in {-400, 37, 400} :
        LET down == handlePointerDown(W, block, "right")
            straight == handlePointerUp(handlePointerMove(down, offset))
            detour == handlePointerUp(
                        handlePointerMove(handlePointerMove(down, via), offset))
        IN  store.dragState = <<>>
            => detour.s.workout.blocks = straight.s.workout.blocks

\* the same for the blocks at the top level of the tree
C32_TopLevelDragIsPathIndependent ==
    \A block \in Range(LeafBlocks(Blocks)), via, offset \in {-400, 37, 400} :
        LET down == handlePointerDown(W, block, "right")
            straight == handlePointerUp(handlePointerMove(down, offset))
            detour == handlePointerUp(
                        handlePointerMove(handlePointerMove(down, via), offset))
        IN  (store.dragState = <<>> /\ block.id \in TopLevelBlockIds(Blocks))
            => detour.s.workout.blocks = straight.s.workout.blocks

\* C33: in every state a block carries a powerEnd only if its type is warmup,
\* cooldown or ramp; neither a drag of a power handle nor a type change leaves
\* a powerEnd on a block of another type.
C33_PowerEndOnlyOnRamps ==
    \A b \in Range(LeafBlocks(Blocks)) :
        "powerEnd" \in DOMAIN b => b.type \in {"warmup", "cooldown", "ramp"}

\* the block-level operations and the change of the target
FittingOps ==
    {"addBlock", "addIntervalSet", "updateBlock", "duplicateBlock",
     "handlePointerMove", "setTargetDuration"}

\* C34: in fixed duration mode a workout that fits the target still fits it
\* after addBlock, addIntervalSet, updateBlock, duplicateBlock, a drag move or
\* setTargetDuration.
C34_FixedModeKeepsFit ==
    [][(/\ lastOp'[1] \in FittingOps
        /\ store.durationMode = "fixed"
        /\ store'.durationMode = "fixed"
        /\ getTotalDuration(Blocks) <= store.targetDuration)
       => getTotalDuration(store'.workout.blocks) <= store'.targetDuration]_vars

\* C35: in fixed duration mode, when updateBlock caps the duration it was asked
\* to write, the duration it writes is not greater than the one asked for.
C35_CapNeverRaisesDuration ==
    [][(/\ lastOp'[1] = "updateBlock"
        /\ store.durationMode = "fixed"
        /\ "duration" \in DOMAIN lastOp'[3].vals
        /\ findBlockById(Blocks, lastOp'[2]) /= <<>>
        /\ CapUpdates(store, lastOp'[2], lastOp'[3]) /= lastOp'[3])
       => findBlockById(store'.workout.blocks, lastOp'[2])[1].duration
            <= lastOp'[3].vals.duration]_vars

\* the target fits the content: the total duration rounded up to a multiple
\* of 300 s, and at least 300 s
TargetFits(state) ==
    state.targetDuration
        = Max(300, Ceil(getTotalDuration(state.workout.blocks), 300) * 300)

\* C36: in auto duration mode with no drag in progress, a target that fits the
\* content still fits the content of the store after undo, redo and
\* clearWorkout.
C36_TargetFitsAfterRestore ==
    [][(/\ lastOp'[1] \in {"undo", "redo", "clearWorkout"}
        /\ store.durationMode = "auto"
        /\ store.dragState = <<>>
        /\ TargetFits(store))
       => TargetFits(store')]_vars

\* C37: in every state each selected id is the id of a block or of a repeat
\* group of the current tree.
C37_SelectionRefersToTree ==
    Range(store.selectedIds) \subseteq ItemIds(Blocks)

\* C38: the tick worker posts no 'tick' while the last of the 'start', 'stop'
\* and 'pause' messages it received is a 'stop' or a 'pause', whatever other
\* messages arrived since.
C38_NoTickAfterStop ==
    lastOp[1] = "worker.tick" => worker.lastCommand \notin {"stop", "pause"}

\* C39: a timeout that clears a displayed text was started for that text, the
\* last one received: no text is cleared by the timer of an earlier text.
C39_TextClearedByOwnTimer ==
    [][(/\ lastOp'[1] = "coaching.timeout"
        /\ coaching.text /= ""
        /\ coaching'.text = "")
       => lastOp'[2].received = coaching.received]_vars

====
